---- MODULE Spec2Model ----
(***************************************************************************)
(* Version-aware API merge engine of wow-ts-decl (api.ts, utils.ts).       *)
(*                                                                         *)
(* A point version x.0.0 is modelled by its ordinal x (a natural number);  *)
(* the order of ordinals is the semver order of the versions.  A range is  *)
(* the parsed form the semver library keeps (Range.set): a sequence of     *)
(* comparator sets, the sets OR-ed and the comparators of a set AND-ed.    *)
(* A range string is modelled as the sequence of its tokens: comparators   *)
(* separated by blanks, and the token "||".                                *)
(***************************************************************************)
EXTENDS Integers, Sequences, FiniteSets, TLC

\* Largest version ordinal the inputs use (versions 1.0.0 .. MaxVer.0.0).
MaxVer == 3
\* Largest number of Version.extend calls on one receiver.
MaxExtends == 2
\* Largest number of entity objects the caller constructs and adds.
MaxEntities == 3
\* Largest number of collections handed to APIBuilder.add.
MaxAdds == 3
\* Largest number of signatures in a compared signature list.
MaxSignatures == 2
MaxFiles == 2
MaxArgs == 2
MaxAttempts == 3

Points == 1..MaxVer
\* The versions membership is tested with: one below and one above the inputs.
TestPoints == 0..(MaxVer + 1)

(***************************************************************************)
(* semver: comparators, ranges, parsing and formatting                     *)
(***************************************************************************)
\* Comparator.ANY: the semver of the comparator '' (written '*').
ANY == -1
AnyComparator == [op |-> "", v |-> ANY]
\* The token '||' of a range string.
OrToken == [op |-> "||", v |-> ANY]

Operators == {">", ">=", "<", "<=", ""}
Comparators == [op : Operators, v : Points]

\* new SemVer('x.0.0')
SemVer(x) == [tag |-> "SemVer", v |-> x]
IsSemVer(ver) == ver.tag = "SemVer"
IsRange(ver) == ver.tag = "Range"

\* Comparator.test(version): cmp(version, operator, semver)
ComparatorTest(c, x) ==
  IF c.v = ANY THEN TRUE
  ELSE CASE c.op = ">"  -> x > c.v
         [] c.op = ">=" -> x >= c.v
         [] c.op = "<"  -> x < c.v
         [] c.op = "<=" -> x <= c.v
         [] OTHER       -> x = c.v

\* testSet(set, version): every comparator of the set accepts the version
TestSet(set, x) == \A i \in 1..Len(set) : ComparatorTest(set[i], x)

\* Range.test(version): some comparator set accepts the version
RangeTest(range, x) == \E i \in 1..Len(range.set) : TestSet(range.set[i], x)

\* str.split('||') on a token sequence: the parts between the '||' tokens
RECURSIVE SplitOr(_)
SplitOr(tokens) ==
  IF \A i \in 1..Len(tokens) : tokens[i] # OrToken
  THEN <<tokens>>
  ELSE LET k == CHOOSE i \in 1..Len(tokens) :
                  tokens[i] = OrToken /\ \A j \in 1..(i - 1) : tokens[j] # OrToken
       IN <<SubSeq(tokens, 1, k - 1)>> \o SplitOr(SubSeq(tokens, k + 1, Len(tokens)))

\* The comparators of a list, each value once, in the order of first occurrence
\* (the Map keyed by comp.value in Range.parseRange).
RECURSIVE DedupComparators(_)
DedupComparators(cs) ==
  IF cs = <<>> THEN <<>>
  ELSE LET init == DedupComparators(SubSeq(cs, 1, Len(cs) - 1))
           c == cs[Len(cs)]
       IN IF \E i \in 1..Len(init) : init[i] = c THEN init ELSE Append(init, c)

\* Range.parseRange, its last step: with more than one comparator the ''
\* comparators are removed.
DropAny(uniq) ==
  IF Len(uniq) > 1 /\ (\E i \in 1..Len(uniq) : uniq[i] = AnyComparator)
  THEN SelectSeq(uniq, LAMBDA c : c # AnyComparator)
  ELSE uniq

\* Range.parseRange(part): an empty part is the comparator ''; duplicates are
\* dropped.
ParseRange(part) ==
  DropAny(DedupComparators(IF part = <<>> THEN <<AnyComparator>> ELSE part))

\* The Range constructor, its last step: when one of several sets is '*' the
\* range is just '*'.  Range.raw keeps the string the range was made from.
RangeOfSets(sets, raw) ==
  [tag |-> "Range",
   set |-> IF Len(sets) > 1 /\ (\E i \in 1..Len(sets) : sets[i] = <<AnyComparator>>)
           THEN <<(<<AnyComparator>>)>>
           ELSE sets,
   raw |-> raw]

\* The Range constructor: every part of the split string is parsed.
ParseParts(parts) == [i \in 1..Len(parts) |-> ParseRange(parts[i])]

\* new Range(str)
NewRange(tokens) == RangeOfSets(ParseParts(SplitOr(tokens)), tokens)

\* The tokens of one comparator set: the comparator '' prints as nothing.
FormatSet(set) == SelectSeq(set, LAMBDA c : c # AnyComparator)

\* Range.format(): the sets joined by '||', the comparators of a set by ' '
RECURSIVE FormatSets(_)
FormatSets(sets) ==
  IF Len(sets) = 1 THEN FormatSet(sets[1])
  ELSE FormatSets(SubSeq(sets, 1, Len(sets) - 1)) \o <<OrToken>> \o FormatSet(sets[Len(sets)])

Format(range) == FormatSets(range.set)

\* SemVer.version / SemVer.raw as a range string: the one token 'x.0.0'
PointToken(x) == [op |-> "", v |-> x]

\* semver.satisfies(version, range) with a Range object
SatisfiesRange(x, range) == RangeTest(range, x)

\* version.test(point) of either kind: a SemVer is tested as the range of
\* its raw string (filterAgainstVersion)
Accepts(ver, x) ==
  IF IsRange(ver) THEN RangeTest(ver, x)
  ELSE SatisfiesRange(x, NewRange(<<PointToken(ver.v)>>))

\* The point versions a version value accepts, among the tested ones.
AcceptSet(ver) == {x \in TestPoints : Accepts(ver, x)}

(***************************************************************************)
(* semver: subset(sub, dom)                                                *)
(***************************************************************************)
NoComparator == [op |-> "none", v |-> ANY]
\* minimumVersion: the comparator '>=0.0.0' that stands in for '*'
MinimumVersion == <<[op |-> ">=", v |-> 0]>>

IsGT(c) == c.op \in {">", ">="}
IsLT(c) == c.op \in {"<", "<="}

\* higherGT(a, b): '>=1.2.3' is lower than '>1.2.3'
HigherGT(a, b) ==
  IF a = NoComparator THEN b
  ELSE IF a.v > b.v THEN a
  ELSE IF a.v < b.v THEN b
  ELSE IF b.op = ">" /\ a.op = ">=" THEN b ELSE a

\* lowerLT(a, b): '<=1.2.3' is higher than '<1.2.3'
LowerLT(a, b) ==
  IF a = NoComparator THEN b
  ELSE IF a.v < b.v THEN a
  ELSE IF a.v > b.v THEN b
  ELSE IF b.op = "<" /\ a.op = "<=" THEN b ELSE a

\* higherGT(gt, c) === c && higher !== gt, for comparators of different ranges
HigherIsDom(gt, c) == gt.v < c.v \/ (gt.v = c.v /\ c.op = ">" /\ gt.op = ">=")
LowerIsDom(lt, c) == lt.v > c.v \/ (lt.v = c.v /\ c.op = "<" /\ lt.op = "<=")

\* the first loop of simpleSubset: the tightest '>'/'>=' and '<'/'<=' of sub
RECURSIVE SubGT(_)
SubGT(sub) ==
  IF sub = <<>> THEN NoComparator
  ELSE LET g == SubGT(SubSeq(sub, 1, Len(sub) - 1))
           c == sub[Len(sub)]
       IN IF IsGT(c) THEN HigherGT(g, c) ELSE g

RECURSIVE SubLT(_)
SubLT(sub) ==
  IF sub = <<>> THEN NoComparator
  ELSE LET l == SubLT(SubSeq(sub, 1, Len(sub) - 1))
           c == sub[Len(sub)]
       IN IF IsLT(c) THEN LowerLT(l, c) ELSE l

\* simpleSubset: '*' is replaced by the minimum version
OrMinimum(set) == IF set = <<AnyComparator>> THEN MinimumVersion ELSE set

\* simpleSubset: eqSet, the versions of the '=' comparators of sub
EqSet(sub) == {sub[i].v : i \in {j \in 1..Len(sub) : ~IsGT(sub[j]) /\ ~IsLT(sub[j])}}

\* simpleSubset: gtltComp = compare(gt.semver, lt.semver); 2 stands for
\* undefined (gt or lt is missing)
GtLtComp(gt, lt) ==
  IF gt # NoComparator /\ lt # NoComparator
  THEN (IF gt.v > lt.v THEN 1 ELSE IF gt.v < lt.v THEN -1 ELSE 0)
  ELSE 2

\* simpleSubset: one pass of the loop over dom returns false
DomRejects(gt, lt, c) ==
  \/ /\ gt # NoComparator
     /\ IF IsGT(c) THEN HigherIsDom(gt, c)
        ELSE gt.op = ">=" /\ ~ComparatorTest(c, gt.v)
  \/ /\ lt # NoComparator
     /\ IF IsLT(c) THEN LowerIsDom(lt, c)
        ELSE lt.op = "<=" /\ ~ComparatorTest(c, lt.v)
  \/ c.op = "" /\ (lt # NoComparator \/ gt # NoComparator) /\ GtLtComp(gt, lt) # 0

\* simpleSubset after its first loop: eqSet, gt and lt are those of sub
SimpleSubsetOf(dom, eqSet, gt, lt) ==
  IF Cardinality(eqSet) > 1 THEN "null"
  ELSE IF GtLtComp(gt, lt) = 1 THEN "null"
  ELSE IF GtLtComp(gt, lt) = 0 /\ (gt.op # ">=" \/ lt.op # "<=") THEN "null"
  ELSE IF eqSet # {}
  THEN IF gt # NoComparator /\ (\E eq \in eqSet : ~ComparatorTest(gt, eq)) THEN "null"
       ELSE IF lt # NoComparator /\ (\E eq \in eqSet : ~ComparatorTest(lt, eq)) THEN "null"
       ELSE IF \E i \in 1..Len(dom) : \E eq \in eqSet : ~ComparatorTest(dom[i], eq)
       THEN "false"
       ELSE "true"
  ELSE IF \E i \in 1..Len(dom) : DomRejects(gt, lt, dom[i]) THEN "false"
  ELSE IF /\ gt # NoComparator
          /\ \E i \in 1..Len(dom) : IsLT(dom[i])
          /\ lt = NoComparator
          /\ GtLtComp(gt, lt) # 0
  THEN "false"
  ELSE IF /\ lt # NoComparator
          /\ \E i \in 1..Len(dom) : IsGT(dom[i])
          /\ gt = NoComparator
          /\ GtLtComp(gt, lt) # 0
  THEN "false"
  ELSE "true"

\* simpleSubset(sub, dom): "true", "false" or "null" (sub is the null set).
\* Equal comparator lists are one array of the parse cache (sub === dom).
SimpleSubset(sub, dom) ==
  IF sub = dom THEN "true"
  ELSE IF sub = <<AnyComparator>> /\ dom = <<AnyComparator>> THEN "true"
  ELSE SimpleSubsetOf(OrMinimum(dom), EqSet(OrMinimum(sub)),
                      SubGT(OrMinimum(sub)), SubLT(OrMinimum(sub)))

\* subset(sub, dom): the loop over sub.set from set i on; sawNonNull is carried
\* from one simple range of sub to the next.
RECURSIVE SubsetFrom(_, _, _, _)

\* One pass of the outer loop of subset, res[j] being simpleSubset of sub.set[i]
\* and dom.set[j]: the inner loop stops at the first simple range of dom that
\* contains sub.set[i].
SubsetPass(sub, dom, i, sawNonNull, res) ==
  LET hits == {j \in 1..Len(dom.set) : res[j] = "true"}
      upto == IF hits = {} THEN Len(dom.set)
              ELSE CHOOSE j \in hits : \A k \in hits : j <= k
      saw == sawNonNull \/ \E j \in 1..upto : res[j] # "null"
  IN IF hits # {} THEN SubsetFrom(sub, dom, i + 1, saw)
     ELSE IF saw THEN FALSE
     ELSE SubsetFrom(sub, dom, i + 1, saw)

SubsetFrom(sub, dom, i, sawNonNull) ==
  IF i > Len(sub.set) THEN TRUE
  ELSE \E res \in {[j \in 1..Len(dom.set) |-> SimpleSubset(sub.set[i], dom.set[j])]} :
         SubsetPass(sub, dom, i, sawNonNull, res)

Subset(sub, dom) == SubsetFrom(sub, dom, 1, FALSE)

(***************************************************************************)
(* Version.extend                                                          *)
(***************************************************************************)
\* Version.extend with the extending point forgotten in the point x point case
ExtendKeepsLeftPoint(left, right) ==
  CASE IsSemVer(left) /\ IsSemVer(right) -> NewRange(<<PointToken(left.v)>>)
    [] IsRange(left) /\ IsSemVer(right) ->
         IF SatisfiesRange(right.v, left)
         THEN NewRange(Format(left))
         ELSE NewRange(Format(left) \o <<OrToken, PointToken(right.v)>>)
    [] IsSemVer(left) /\ IsRange(right) ->
         IF ~SatisfiesRange(left.v, right)
         THEN NewRange(<<PointToken(left.v), OrToken>> \o Format(right))
         ELSE NewRange(Format(right))
    [] IsRange(left) /\ IsRange(right) ->
         IF Subset(left, right) THEN NewRange(Format(right))
         ELSE IF Subset(right, left) THEN NewRange(Format(left))
         ELSE NewRange(Format(left) \o Format(right))

\* Version.extend with the point of the range x point case AND-ed onto the
\* range (joined by a blank instead of '||')
ExtendJoinsPointByBlank(left, right) ==
  CASE IsSemVer(left) /\ IsSemVer(right) ->
         NewRange(<<PointToken(left.v), OrToken, PointToken(right.v)>>)
    [] IsRange(left) /\ IsSemVer(right) ->
         IF SatisfiesRange(right.v, left)
         THEN NewRange(Format(left))
         ELSE NewRange(Format(left) \o <<PointToken(right.v)>>)
    [] IsSemVer(left) /\ IsRange(right) ->
         IF ~SatisfiesRange(left.v, right)
         THEN NewRange(<<PointToken(left.v), OrToken>> \o Format(right))
         ELSE NewRange(Format(right))
    [] IsRange(left) /\ IsRange(right) ->
         IF Subset(left, right) THEN NewRange(Format(right))
         ELSE IF Subset(right, left) THEN NewRange(Format(left))
         ELSE NewRange(Format(left) \o Format(right))

\* Version.extend with the isOutsideRange test of the range x point case
\* dropped: the point is always OR-ed onto the range
ExtendAlwaysAddsPoint(left, right) ==
  CASE IsSemVer(left) /\ IsSemVer(right) ->
         NewRange(<<PointToken(left.v), OrToken, PointToken(right.v)>>)
    [] IsRange(left) /\ IsSemVer(right) ->
         NewRange(Format(left) \o <<OrToken, PointToken(right.v)>>)
    [] IsSemVer(left) /\ IsRange(right) ->
         IF ~SatisfiesRange(left.v, right)
         THEN NewRange(<<PointToken(left.v), OrToken>> \o Format(right))
         ELSE NewRange(Format(right))
    [] IsRange(left) /\ IsRange(right) ->
         IF Subset(left, right) THEN NewRange(Format(right))
         ELSE IF Subset(right, left) THEN NewRange(Format(left))
         ELSE NewRange(Format(left) \o Format(right))

\* Version.extend with the point of the point x range case forgotten: the
\* result is always the range
ExtendDropsLeftPoint(left, right) ==
  CASE IsSemVer(left) /\ IsSemVer(right) ->
         NewRange(<<PointToken(left.v), OrToken, PointToken(right.v)>>)
    [] IsRange(left) /\ IsSemVer(right) ->
         IF SatisfiesRange(right.v, left)
         THEN NewRange(Format(left))
         ELSE NewRange(Format(left) \o <<OrToken, PointToken(right.v)>>)
    [] IsSemVer(left) /\ IsRange(right) -> NewRange(Format(right))
    [] IsRange(left) /\ IsRange(right) ->
         IF Subset(left, right) THEN NewRange(Format(right))
         ELSE IF Subset(right, left) THEN NewRange(Format(left))
         ELSE NewRange(Format(left) \o Format(right))

\* Version.extend that keeps the subset instead of the superset in the range x
\* range case
ExtendKeepsSubset(left, right) ==
  CASE IsSemVer(left) /\ IsSemVer(right) ->
         NewRange(<<PointToken(left.v), OrToken, PointToken(right.v)>>)
    [] IsRange(left) /\ IsSemVer(right) ->
         IF SatisfiesRange(right.v, left)
         THEN NewRange(Format(left))
         ELSE NewRange(Format(left) \o <<OrToken, PointToken(right.v)>>)
    [] IsSemVer(left) /\ IsRange(right) ->
         IF ~SatisfiesRange(left.v, right)
         THEN NewRange(<<PointToken(left.v), OrToken>> \o Format(right))
         ELSE NewRange(Format(right))
    [] IsRange(left) /\ IsRange(right) ->
         IF Subset(left, right) THEN NewRange(Format(left))
         ELSE IF Subset(right, left) THEN NewRange(Format(right))
         ELSE NewRange(Format(left) \o Format(right))

\* Version.extend that joins two ranges, neither a subset of the other, by
\* '||' instead of a blank
ExtendJoinsRangesByOr(left, right) ==
  CASE IsSemVer(left) /\ IsSemVer(right) ->
         NewRange(<<PointToken(left.v), OrToken, PointToken(right.v)>>)
    [] IsRange(left) /\ IsSemVer(right) ->
         IF SatisfiesRange(right.v, left)
         THEN NewRange(Format(left))
         ELSE NewRange(Format(left) \o <<OrToken, PointToken(right.v)>>)
    [] IsSemVer(left) /\ IsRange(right) ->
         IF ~SatisfiesRange(left.v, right)
         THEN NewRange(<<PointToken(left.v), OrToken>> \o Format(right))
         ELSE NewRange(Format(right))
    [] IsRange(left) /\ IsRange(right) ->
         IF Subset(left, right) THEN NewRange(Format(right))
         ELSE IF Subset(right, left) THEN NewRange(Format(left))
         ELSE NewRange(Format(left) \o <<OrToken>> \o Format(right))

\* Version.extend that leaves a point alone when it is extended by the same
\* point (no range is made of it)
ExtendKeepsEqualPoint(left, right) ==
  CASE IsSemVer(left) /\ IsSemVer(right) ->
         IF left.v = right.v THEN SemVer(left.v)
         ELSE NewRange(<<PointToken(left.v), OrToken, PointToken(right.v)>>)
    [] IsRange(left) /\ IsSemVer(right) ->
         IF SatisfiesRange(right.v, left)
         THEN NewRange(Format(left))
         ELSE NewRange(Format(left) \o <<OrToken, PointToken(right.v)>>)
    [] IsSemVer(left) /\ IsRange(right) ->
         IF ~SatisfiesRange(left.v, right)
         THEN NewRange(<<PointToken(left.v), OrToken>> \o Format(right))
         ELSE NewRange(Format(right))
    [] IsRange(left) /\ IsRange(right) ->
         IF Subset(left, right) THEN NewRange(Format(right))
         ELSE IF Subset(right, left) THEN NewRange(Format(left))
         ELSE NewRange(Format(left) \o Format(right))

\* Version.extend(extendingVersion): the new value of this.version
Extend(left, right) ==
  CASE IsSemVer(left) /\ IsSemVer(right) ->
         NewRange(<<PointToken(left.v), OrToken, PointToken(right.v)>>)
    [] IsRange(left) /\ IsSemVer(right) ->
         IF SatisfiesRange(right.v, left)
         THEN NewRange(Format(left))
         ELSE NewRange(Format(left) \o <<OrToken, PointToken(right.v)>>)
    [] IsSemVer(left) /\ IsRange(right) ->
         IF ~SatisfiesRange(left.v, right)
         THEN NewRange(<<PointToken(left.v), OrToken>> \o Format(right))
         ELSE NewRange(Format(right))
    [] IsRange(left) /\ IsRange(right) ->
         IF Subset(left, right) THEN NewRange(Format(right))
         ELSE IF Subset(right, left) THEN NewRange(Format(left))
         ELSE NewRange(Format(left) \o Format(right))

\* The version values handed to Version.extend: every point, and the ranges
\* '*' and '<op>x.0.0'.
PointVersions == {SemVer(x) : x \in Points}
RangeVersions == {NewRange(<<c>>) : c \in Comparators} \cup {NewRange(<<>>)}
VersionValues == PointVersions \cup RangeVersions
\* Ranges as an earlier extend leaves them: '>x.0.0||p.0.0', p outside '>x.0.0'.
OrRanges ==
  {NewRange(<<[op |-> ">", v |-> xp[1]], OrToken, PointToken(xp[2])>>) :
     xp \in {pair \in Points \X Points : pair[2] <= pair[1]}}
\* What a caller hands to extend: the version of another entity.
ExtendingValues == VersionValues \cup OrRanges

(***************************************************************************)
(* Entities and structural identity                                        *)
(***************************************************************************)
\* API.DEFAULT_NAMESPACE
DEFAULT_NAMESPACE == "WoWAPI"

\* props.key || fallback, for an optional property of a constructor's props
OrDefault(props, key, fallback) ==
  IF key \in DOMAIN props THEN props[key] ELSE fallback

\* new APIFunction(props)
APIFunction(props) ==
  [kind |-> "function",
   name |-> props.name,
   description |-> OrDefault(props, "description", ""),
   parameters |-> props.parameters,
   returns |-> props.returns,
   events |-> OrDefault(props, "events", <<>>),
   ns |-> IF "ns" \in DOMAIN props /\ props.ns # "" THEN props.ns ELSE DEFAULT_NAMESPACE,
   version |-> props.version]

\* new APITable(props)
APITable(props) ==
  [kind |-> "table",
   name |-> props.name,
   description |-> OrDefault(props, "description", ""),
   type |-> OrDefault(props, "type", ""),
   fields |-> props.fields,
   parameters |-> OrDefault(props, "parameters", <<>>),
   values |-> OrDefault(props, "values", <<>>),
   ns |-> IF "ns" \in DOMAIN props /\ props.ns # "" THEN props.ns ELSE DEFAULT_NAMESPACE,
   version |-> props.version]

\* new APIEvent(props)
APIEvent(props) ==
  [kind |-> "event",
   name |-> props.name,
   description |-> OrDefault(props, "description", ""),
   literalName |-> props.literalName,
   payload |-> props.payload,
   ns |-> IF "ns" \in DOMAIN props /\ props.ns # "" THEN props.ns ELSE DEFAULT_NAMESPACE,
   version |-> props.version]

\* identicalSignature(s)(ss): every own key of s is a key of ss with the same value
IdenticalSignature(s, ss) ==
  \A key \in DOMAIN s : key \in DOMAIN ss /\ ss[key] = s[key]

\* identicalArrays without the length test
IdenticalArraysIgnoresLength(left, right) ==
  \A i \in 1..Len(left) : \E j \in 1..Len(right) : IdenticalSignature(left[i], right[j])

\* identicalArrays(left, right, identicalSignature)
IdenticalArrays(left, right) ==
  /\ Len(left) = Len(right)
  /\ \A i \in 1..Len(left) : \E j \in 1..Len(right) : IdenticalSignature(left[i], right[j])

\* APIFunction.identicalTo(func)
FunctionIdenticalTo(this, func) ==
  /\ this.name = func.name
  /\ IdenticalArrays(this.parameters, func.parameters)
  /\ IdenticalArrays(this.returns, func.returns)
  /\ this.ns = func.ns

\* APITable.identicalTo(t)
TableIdenticalTo(this, t) ==
  /\ this.name = t.name
  /\ IdenticalArrays(this.fields, t.fields)
  /\ this.ns = t.ns

\* APIEvent.identicalTo(t)
EventIdenticalTo(this, t) ==
  /\ this.name = t.name
  /\ this.literalName = t.literalName
  /\ IdenticalArrays(this.payload, t.payload)
  /\ this.ns = t.ns

\* existingItem.identicalTo(combiningItem): the method of the receiver's class
IdenticalTo(this, item) ==
  CASE this.kind = "function" -> FunctionIdenticalTo(this, item)
    [] this.kind = "table"    -> TableIdenticalTo(this, item)
    [] this.kind = "event"    -> EventIdenticalTo(this, item)

(***************************************************************************)
(* API: combine and filterForVersion.  A collection holds identities       *)
(* (indices into the heap h); entity objects are shared between the        *)
(* collections that list them.                                             *)
(***************************************************************************)
\* new API(): three empty lists
NewAPI == [functions |-> <<>>, tables |-> <<>>, events |-> <<>>]

\* items.find((f) => combiningItem.name === f.name): the position of the first
\* entity of that name in items, 0 when there is none
FindByName(h, items, name) ==
  LET hits == {i \in 1..Len(items) : h[items[i]].name = name}
  IN IF hits = {} THEN 0 ELSE CHOOSE i \in hits : \A j \in hits : i <= j

\* combineItems without the identity branch: every combining item is pushed
CombineItemAlwaysAppends(st, combiningItem) ==
  [heap |-> st.heap, items |-> Append(st.items, combiningItem)]

\* combineItems that extends the first entity of the same name without asking
\* identicalTo
CombineItemMergesByName(st, combiningItem) ==
  LET h == st.heap
      items == st.items
      pos == FindByName(h, items, h[combiningItem].name)
  IN IF pos # 0
     THEN [heap |-> [h EXCEPT ![items[pos]].version = Extend(@, h[combiningItem].version)],
           items |-> items]
     ELSE [heap |-> h, items |-> Append(items, combiningItem)]

\* combineItems without the continue: an absorbed item is pushed as well
CombineItemExtendsAndAppends(st, combiningItem) ==
  LET h == st.heap
      items == st.items
      pos == FindByName(h, items, h[combiningItem].name)
  IN IF pos # 0 /\ IdenticalTo(h[items[pos]], h[combiningItem])
     THEN [heap |-> [h EXCEPT ![items[pos]].version = Extend(@, h[combiningItem].version)],
           items |-> Append(items, combiningItem)]
     ELSE [heap |-> h, items |-> Append(items, combiningItem)]

\* combineItems that puts a diverging item in the place of the entity found
CombineItemReplacesDiverging(st, combiningItem) ==
  LET h == st.heap
      items == st.items
      pos == FindByName(h, items, h[combiningItem].name)
  IN IF pos # 0 /\ IdenticalTo(h[items[pos]], h[combiningItem])
     THEN [heap |-> [h EXCEPT ![items[pos]].version = Extend(@, h[combiningItem].version)],
           items |-> items]
     ELSE IF pos # 0
     THEN [heap |-> h, items |-> [items EXCEPT ![pos] = combiningItem]]
     ELSE [heap |-> h, items |-> Append(items, combiningItem)]

\* The position in items of the first entity that has the name of e and is
\* identical to it, 0 when there is none.
FindIdentical(h, items, e) ==
  IF \E i \in 1..Len(items) : h[items[i]].name = e.name /\ IdenticalTo(h[items[i]], e)
  THEN CHOOSE i \in 1..Len(items) :
         /\ h[items[i]].name = e.name /\ IdenticalTo(h[items[i]], e)
         /\ \A j \in 1..(i - 1) : ~(h[items[j]].name = e.name /\ IdenticalTo(h[items[j]], e))
  ELSE 0

\* combineItems that looks for an identical entity among all entities of the
\* name, not only at the first one
CombineItemFindsIdentical(st, combiningItem) ==
  IF FindIdentical(st.heap, st.items, st.heap[combiningItem]) # 0
  THEN [heap |-> [st.heap EXCEPT
                    ![st.items[FindIdentical(st.heap, st.items, st.heap[combiningItem])]].version =
                       Extend(@, st.heap[combiningItem].version)],
        items |-> st.items]
  ELSE [heap |-> st.heap, items |-> Append(st.items, combiningItem)]

\* one pass of the loop of API.combineItems, for the entity combiningItem
CombineItem(st, combiningItem) ==
  LET h == st.heap
      items == st.items
      pos == FindByName(h, items, h[combiningItem].name)
  IN IF pos # 0 /\ IdenticalTo(h[items[pos]], h[combiningItem])
     THEN [heap |-> [h EXCEPT ![items[pos]].version = Extend(@, h[combiningItem].version)],
           items |-> items]
     ELSE [heap |-> h, items |-> Append(items, combiningItem)]

\* API.combineItems(items, combiningItems) from the k-th combining item on:
\* the heap and the list it leaves
RECURSIVE CombineItemsFrom(_, _, _)
CombineItemsFrom(st, combiningItems, k) ==
  IF k > Len(combiningItems) THEN st
  ELSE CHOOSE out \in {CombineItemsFrom(next, combiningItems, k + 1) :
                         next \in {CombineItem(st, combiningItems[k])}} : TRUE

\* (the singleton sets bind the state of the loop as a value, once per pass)
CombineItems(h, items, combiningItems) ==
  CHOOSE out \in {CombineItemsFrom(st, combiningItems, 1) :
                    st \in {[heap |-> h, items |-> items]}} : TRUE

\* combinedAPI after combineItems left r.items as its list of the kind `list`
WithList(st, list, r) ==
  [heap |-> r.heap, api |-> [st.api EXCEPT ![list] = r.items]]

\* combinedAPI.combineItems(combinedAPI[list], combiningItems), st holding the
\* heap and combinedAPI
CombineList(st, list, combiningItems) ==
  WithList(st, list, CombineItems(st.heap, st.api[list], combiningItems))

\* combine with the roles swapped: combinedAPI starts with the entities of api,
\* and those of this are combined into it
CombineIntoArgument(h, this, api) ==
  CHOOSE out \in
    {CombineList(es, "tables", this.tables) :
       es \in {CombineList(fs, "events", this.events) :
                 fs \in {CombineList(st, "functions", this.functions) :
                           st \in {[heap |-> h, api |-> api]}}}} : TRUE

\* this.combine(api): combinedAPI starts with the entities of this (the same
\* objects); functions, events and tables of api are combined into it in that
\* order.  Gives the new collection and the heap after the call.
Combine(h, this, api) ==
  CHOOSE out \in
    {CombineList(es, "tables", api.tables) :
       es \in {CombineList(fs, "events", api.events) :
                 fs \in {CombineList(st, "functions", api.functions) :
                           st \in {[heap |-> h, api |-> this]}}}} : TRUE

\* filterAgainstVersion that tests a point version as the lower end of a range
FilterPointAsLowerBound(targetVersion, item) ==
  IF IsRange(item.version) THEN RangeTest(item.version, targetVersion)
  ELSE targetVersion >= item.version.v

\* filterAgainstVersion(targetVersion)(item)
FilterAgainstVersion(targetVersion, item) ==
  IF IsRange(item.version) THEN RangeTest(item.version, targetVersion)
  ELSE SatisfiesRange(targetVersion, NewRange(<<PointToken(item.version.v)>>))

\* new FilteredAPI(api, version)
FilteredAPI(h, api, v) ==
  [functions |-> SelectSeq(api.functions, LAMBDA id : FilterAgainstVersion(v, h[id])),
   tables |-> SelectSeq(api.tables, LAMBDA id : FilterAgainstVersion(v, h[id])),
   events |-> SelectSeq(api.events, LAMBDA id : FilterAgainstVersion(v, h[id]))]

\* API.filterForVersion(version)
FilterForVersion(h, api, v) == FilteredAPI(h, api, v)

\* this.apis.reduce((combinedAPI, api) => combinedAPI.combine(api)) from the
\* k-th collection on, acc being the accumulator
RECURSIVE ReduceFrom(_, _, _, _)
ReduceFrom(h, acc, list, k) ==
  IF k > Len(list) THEN [heap |-> h, api |-> acc]
  ELSE CHOOSE out \in {ReduceFrom(r.heap, r.api, list, k + 1) :
                         r \in {Combine(h, acc, list[k])}} : TRUE

\* The collections of a list in reverse order.
Reversed(list) == [i \in 1..Len(list) |-> list[Len(list) + 1 - i]]

\* merge that folds from the right (reduceRight): the last collection is the seed
MergeRightToLeft(h, list) == ReduceFrom(h, list[Len(list)], Reversed(list), 2)

\* APIBuilder.merge() on a builder that holds the collections of list (not empty):
\* the first collection is the seed
Merge(h, list) == ReduceFrom(h, list[1], list, 2)

\* What merge() returns when there is nothing to merge.
Null == [null |-> TRUE]

\* merge() that answers an empty builder with a new, empty collection
MergeOrEmpty(h, list) ==
  IF Len(list) = 0 THEN [heap |-> h, api |-> NewAPI] ELSE Merge(h, list)

\* APIBuilder.merge(): if (!this.apis.length) return null, else the reduce
MergeOrNull(h, list) ==
  IF Len(list) = 0 THEN [heap |-> h, api |-> Null] ELSE Merge(h, list)

(***************************************************************************)
(* API.serialize and API.load.  A JSON text is modelled by the value it    *)
(* denotes: objects are functions on their keys, arrays are sequences; a   *)
(* key whose value is undefined is not written, so it is not in the domain *)
(***************************************************************************)
\* version.raw: the string the SemVer or the Range was made from
Raw(ver) == IF IsSemVer(ver) THEN <<PointToken(ver.v)>> ELSE ver.raw

\* Version.toJSON(): the own properties of the entity, the version as its raw
ToJSON(e) ==
  [k \in DOMAIN e \ {"kind"} |-> IF k = "version" THEN Raw(e.version) ELSE e[k]]

ToJSONList(h, ids) == [i \in 1..Len(ids) |-> ToJSON(h[ids[i]])]

\* api.serialize(): JSON.stringify(api), every entity through its toJSON
Serialize(h, api) ==
  [functions |-> ToJSONList(h, api.functions),
   tables |-> ToJSONList(h, api.tables),
   events |-> ToJSONList(h, api.events)]

\* z.object(...).parse(j): keys the schema does not name are stripped, the
\* schema's defaults fill in for the keys that are missing
ParseObject(j, keys, defaults) ==
  [k \in (DOMAIN j \cap keys) \cup DOMAIN defaults |->
     IF k \in DOMAIN j THEN j[k] ELSE defaults[k]]

SignatureKeys ==
  {"name", "description", "type", "mixin", "default", "strideIndex", "nilable"}
SignatureDefaults == [description |-> "", nilable |-> FALSE]

\* variableSignatureSchema
VariableSignatureSchema(s) == ParseObject(s, SignatureKeys, SignatureDefaults)

\* listItemDescriptionSchema
ListItemDescriptionSchema(item) == ParseObject(item, {"name", "description"}, <<>>)

\* semver's valid(str): str is one full version
Valid(raw) ==
  /\ Len(raw) = 1
  /\ raw[1] # OrToken
  /\ raw[1].op = ""
  /\ raw[1].v # ANY

\* versionedSchema's transform of the version string
VersionedSchema(raw) == IF Valid(raw) THEN SemVer(raw[1].v) ELSE NewRange(raw)

\* z.array(item schema).default([]) at key k of j
ArraySchema(j, k) ==
  IF k \notin DOMAIN j THEN <<>>
  ELSE [i \in 1..Len(j[k]) |->
          IF k = "events" THEN ListItemDescriptionSchema(j[k][i])
          ELSE VariableSignatureSchema(j[k][i])]

\* An entity schema: the scalar keys it names, its arrays, version and ns
EntitySchema(j, scalars, arrays) ==
  [k \in (DOMAIN j \cap (scalars \cup {"version", "ns"})) \cup arrays |->
     IF k = "version" THEN VersionedSchema(j.version)
     ELSE IF k \in arrays THEN ArraySchema(j, k)
     ELSE j[k]]

\* functionSchema
FunctionSchema(j) ==
  EntitySchema(j, {"name", "description"}, {"parameters", "returns", "events"})

\* tableSchema
TableSchema(j) ==
  EntitySchema(j, {"name", "type"}, {"parameters", "values", "fields"})

\* eventSchema
EventSchema(j) == EntitySchema(j, {"name", "literalName"}, {"payload"})

\* apiSchema.parse(JSON.parse(content))
ApiSchema(json) ==
  [functions |-> [i \in 1..Len(json.functions) |-> FunctionSchema(json.functions[i])],
   tables |-> [i \in 1..Len(json.tables) |-> TableSchema(json.tables[i])],
   events |-> [i \in 1..Len(json.events) |-> EventSchema(json.events[i])]]

\* The entities API.load constructs from the parsed content, by kind
Constructed(parsed) ==
  [functions |-> [i \in 1..Len(parsed.functions) |-> APIFunction(parsed.functions[i])],
   tables |-> [i \in 1..Len(parsed.tables) |-> APITable(parsed.tables[i])],
   events |-> [i \in 1..Len(parsed.events) |-> APIEvent(parsed.events[i])]]

\* The constructed entities are new objects, pushed into a new API
Allocated(h, made) ==
  [heap |-> h \o made.functions \o made.tables \o made.events,
   api |-> [functions |-> [i \in 1..Len(made.functions) |-> Len(h) + i],
            tables |-> [i \in 1..Len(made.tables) |->
                          Len(h) + Len(made.functions) + i],
            events |-> [i \in 1..Len(made.events) |->
                          Len(h) + Len(made.functions) + Len(made.tables) + i]]]

\* API.load(content)
Load(h, json) == Allocated(h, Constructed(ApiSchema(json)))

(***************************************************************************)
(* State                                                                   *)
(***************************************************************************)
VARIABLES
  version,           \* Version.version of the receiver of extend
  extendingVersion,  \* the argument of the last Version.extend call
  previous,          \* the receiver's version before the last call
  calls,             \* the number of extend calls made on the receiver
  swapped,           \* the version of a second object that held the argument of
                     \* the last call and was extended by the receiver's version
  heap,              \* the entity objects, by identity (index)
  apis,              \* the API collections built by the caller, lists of identities
  builder,           \* APIBuilder.apis: indices into apis
  combined,          \* the collection the last combine / merge returned
  filtered,          \* the collection the last filterForVersion returned
  target,            \* the version handed to the last filterForVersion
  before,            \* the heap at the start of the last combine / merge
  regrouped,         \* what a.combine(b.combine(c)) gives on the same input
  pc,                \* what the caller did last
  comparison,        \* the two entities last compared and what identicalTo said
  loaded,            \* the entities API.load made of the last serialized collection
  written,           \* the output files merge-sources wrote, in order
  exitCode,          \* the exit code of merge-sources; -1 while it runs
  files,             \* the contents of the .json files of inDir, in readdir order
  pending,           \* the validVersions merge-sources has yet to build for
  again,             \* the collection a second merge() on the same builder returned
  scraper,           \* the WikiScraper: cachedFiles, and where its visitPage is
  web                \* the cache directory, the content the browser page shows,
                     \* and the requests page.goto made during the current visit

versionVars == <<version, extendingVersion, previous, calls, swapped>>
apiVars == <<heap, apis, builder, combined, filtered, target, before, regrouped, pc>>
ioVars == <<comparison, loaded, written, exitCode, files, pending, again, scraper, web>>
vars == <<version, extendingVersion, previous, calls, swapped,
          heap, apis, builder, combined, filtered, target, before, regrouped, pc,
          comparison, loaded, written, exitCode, files, pending, again,
          scraper, web>>

\* Nothing was compared, loaded or written.
NoComparison == [of |-> <<>>]
\* A WikiScraper as constructed (cachedFiles = {}) that visits no page, and a
\* cache directory without files.
NoScraper ==
  [cachedFiles |-> {}, pc |-> "idle", resourcePath |-> "", isBlockedByCloudflare |-> TRUE]
NoWeb == [files |-> <<>>, content |-> "", requests |-> <<>>]
IoIdle ==
  /\ comparison = NoComparison
  /\ loaded = NewAPI
  /\ written = <<>>
  /\ exitCode = -1
  /\ files = <<>>
  /\ pending = <<>>
  /\ again = NewAPI
  /\ scraper = NoScraper
  /\ web = NoWeb

\* No collection was built and no call was made on one.
ApiIdle ==
  /\ heap = <<>>
  /\ apis = <<>>
  /\ builder = <<>>
  /\ combined = NewAPI
  /\ filtered = NewAPI
  /\ target = 0
  /\ before = <<>>
  /\ regrouped = NewAPI
  /\ pc = "idle"
  /\ IoIdle

\* No Version object is under test.
VersionIdle ==
  /\ version = SemVer(1)
  /\ extendingVersion = SemVer(1)
  /\ previous = SemVer(1)
  /\ calls = 0
  /\ swapped = SemVer(1)

(***************************************************************************)
(* Specification of Version: new Version(v), then extend calls             *)
(***************************************************************************)
InitVersion ==
  /\ version \in VersionValues
  /\ extendingVersion = version
  /\ previous = version
  /\ calls = 0
  /\ swapped = version
  /\ ApiIdle

ExtendCall(b) ==
  /\ calls < MaxExtends
  /\ previous' = version
  /\ extendingVersion' = b
  /\ version' = Extend(version, b)
  /\ swapped' = Extend(b, version)
  /\ calls' = calls + 1
  /\ UNCHANGED apiVars
  /\ UNCHANGED ioVars

NextVersion == \E b \in ExtendingValues : ExtendCall(b)

SpecVersion == InitVersion /\ [][NextVersion]_vars

(***************************************************************************)
(* Specification of API: the caller builds a left and a right collection   *)
(* (the left one first), combines them, and filters the result.  The       *)
(* entities of one run are of one kind.                                    *)
(***************************************************************************)
Foo == [name |-> "foo", type |-> "string", nilable |-> TRUE]
SignatureLists == {<<>>, <<Foo>>}
EntityVersions == {SemVer(1), SemVer(2), NewRange(<<[op |-> ">", v |-> 1]>>)}

FunctionProps ==
  {[name |-> "FooBar", parameters |-> ps, returns |-> <<>>, version |-> ver] :
     ps \in SignatureLists, ver \in EntityVersions}
  \cup {[name |-> "FooBar", parameters |-> <<>>, returns |-> <<Foo>>, version |-> ver] :
     ver \in EntityVersions}
  \cup {[name |-> "BarBaz", parameters |-> <<>>, returns |-> <<>>, version |-> ver] :
     ver \in EntityVersions}

TableProps ==
  {[name |-> "FooBar", fields |-> fs, version |-> ver] :
     fs \in SignatureLists, ver \in EntityVersions}
  \cup {[name |-> "BarBaz", fields |-> <<>>, version |-> ver] : ver \in EntityVersions}

EventProps ==
  {[name |-> "FooBar", literalName |-> "FooBar", payload |-> pl, version |-> ver] :
     pl \in SignatureLists, ver \in EntityVersions}
  \cup {[name |-> "BarBaz", literalName |-> "BarBaz", payload |-> <<>>, version |-> ver] :
     ver \in EntityVersions}

\* n collections were constructed and nothing was added to them.
InitCollections(n) ==
  /\ heap = <<>>
  /\ apis = [i \in 1..n |-> NewAPI]
  /\ builder = <<>>
  /\ combined = NewAPI
  /\ filtered = NewAPI
  /\ target = 0
  /\ before = <<>>
  /\ regrouped = NewAPI
  /\ pc = "build"
  /\ IoIdle
  /\ VersionIdle

\* The caller fills the collections one after the other.
MayAddTo(i) ==
  /\ pc = "build"
  /\ Len(heap) < MaxEntities
  /\ \A j \in (i + 1)..Len(apis) : apis[j] = NewAPI

\* apis[i].addFunction(new APIFunction(props))
AddFunction(i, props) ==
  /\ MayAddTo(i)
  /\ \A j \in 1..Len(apis) : apis[j].tables = <<>> /\ apis[j].events = <<>>
  /\ heap' = Append(heap, APIFunction(props))
  /\ apis' = [apis EXCEPT ![i].functions = Append(@, Len(heap) + 1)]
  /\ UNCHANGED <<builder, combined, filtered, target, before, regrouped, pc>>
  /\ UNCHANGED versionVars
  /\ UNCHANGED ioVars

\* apis[i].addTable(new APITable(props))
AddTable(i, props) ==
  /\ MayAddTo(i)
  /\ \A j \in 1..Len(apis) : apis[j].functions = <<>> /\ apis[j].events = <<>>
  /\ heap' = Append(heap, APITable(props))
  /\ apis' = [apis EXCEPT ![i].tables = Append(@, Len(heap) + 1)]
  /\ UNCHANGED <<builder, combined, filtered, target, before, regrouped, pc>>
  /\ UNCHANGED versionVars
  /\ UNCHANGED ioVars

\* apis[i].addEvent(new APIEvent(props))
AddEvent(i, props) ==
  /\ MayAddTo(i)
  /\ \A j \in 1..Len(apis) : apis[j].functions = <<>> /\ apis[j].tables = <<>>
  /\ heap' = Append(heap, APIEvent(props))
  /\ apis' = [apis EXCEPT ![i].events = Append(@, Len(heap) + 1)]
  /\ UNCHANGED <<builder, combined, filtered, target, before, regrouped, pc>>
  /\ UNCHANGED versionVars
  /\ UNCHANGED ioVars

\* combined = left.combine(right), left being apis[1] and right apis[2]
CombineCall ==
  /\ pc = "build"
  /\ \E r \in {Combine(heap, apis[1], apis[2])} :
       /\ heap' = r.heap
       /\ combined' = r.api
  /\ before' = heap
  /\ pc' = "combined"
  /\ UNCHANGED <<apis, builder, filtered, target, regrouped>>
  /\ UNCHANGED versionVars
  /\ UNCHANGED ioVars

\* filtered = combined.filterForVersion(new SemVer(v))
FilterCall(v) ==
  /\ pc \in {"combined", "merged"}
  /\ filtered' = FilterForVersion(heap, combined, v)
  /\ target' = v
  /\ pc' = "filtered"
  /\ UNCHANGED <<heap, apis, builder, combined, before, regrouped>>
  /\ UNCHANGED versionVars
  /\ UNCHANGED ioVars

Init == InitCollections(2)

Next ==
  \/ \E i \in 1..Len(apis), props \in FunctionProps : AddFunction(i, props)
  \/ \E i \in 1..Len(apis), props \in TableProps : AddTable(i, props)
  \/ \E i \in 1..Len(apis), props \in EventProps : AddEvent(i, props)
  \/ CombineCall
  \/ \E v \in TestPoints : FilterCall(v)

Spec == Init /\ [][Next]_vars

(***************************************************************************)
(* Specification of APIBuilder: the caller adds one collection per version *)
(* (each with the function Foo at the version, Bar above it and Baz below  *)
(* it), merges, and filters the result.                                    *)
(***************************************************************************)
\* createFunction(props): a function without parameters and returns
CreateFunction(name, ver) ==
  APIFunction([name |-> name, parameters |-> <<>>, returns |-> <<>>, version |-> ver])

\* api = new API() with Foo, Bar and Baz for version v; apiBuilder.add(api)
AddVersionCollection(v) ==
  /\ pc = "build"
  /\ Len(builder) < MaxAdds
  /\ heap' = heap \o <<CreateFunction("Foo", SemVer(v)),
                       CreateFunction("Bar", NewRange(<<[op |-> ">", v |-> v]>>)),
                       CreateFunction("Baz", NewRange(<<[op |-> "<", v |-> v]>>))>>
  /\ apis' = Append(apis, [NewAPI EXCEPT
                             !.functions = <<Len(heap) + 1, Len(heap) + 2, Len(heap) + 3>>])
  /\ builder' = Append(builder, Len(apis) + 1)
  /\ UNCHANGED <<combined, filtered, target, before, regrouped, pc>>
  /\ UNCHANGED versionVars
  /\ UNCHANGED ioVars

\* merged = apiBuilder.merge(): null when no collection was added
MergeCall ==
  /\ pc = "build"
  /\ \E r \in {MergeOrNull(heap, [i \in 1..Len(builder) |-> apis[builder[i]]])} :
       IF r.api = Null
       THEN /\ pc' = "null"
            /\ UNCHANGED <<heap, combined>>
       ELSE /\ heap' = r.heap
            /\ combined' = r.api
            /\ pc' = "merged"
  /\ before' = heap
  /\ UNCHANGED <<apis, builder, filtered, target, regrouped>>
  /\ UNCHANGED versionVars
  /\ UNCHANGED ioVars

InitBuilder == InitCollections(0)

NextBuilder ==
  \/ \E v \in Points : AddVersionCollection(v)
  \/ MergeCall
  \/ \E v \in TestPoints : FilterCall(v)

SpecBuilder == InitBuilder /\ [][NextBuilder]_vars

(***************************************************************************)
(* Specification of chained combines: the caller builds three collections  *)
(* a, b and c and computes a.combine(b).combine(c); regrouped is what      *)
(* a.combine(b.combine(c)) returns for the same three collections.         *)
(***************************************************************************)
\* The entities a collection lists, as the heap h holds them.
Entities(h, api) ==
  [functions |-> [i \in 1..Len(api.functions) |-> h[api.functions[i]]],
   tables |-> [i \in 1..Len(api.tables) |-> h[api.tables[i]]],
   events |-> [i \in 1..Len(api.events) |-> h[api.events[i]]]]

ChainCall ==
  /\ pc = "build"
  /\ \E ab \in {Combine(heap, apis[1], apis[2])}, bc \in {Combine(heap, apis[2], apis[3])} :
       \E abc \in {Combine(ab.heap, ab.api, apis[3])},
          a_bc \in {Combine(bc.heap, apis[1], bc.api)} :
         /\ heap' = abc.heap
         /\ combined' = abc.api
         /\ regrouped' = Entities(a_bc.heap, a_bc.api)
  /\ before' = heap
  /\ pc' = "chained"
  /\ UNCHANGED <<apis, builder, filtered, target>>
  /\ UNCHANGED versionVars
  /\ UNCHANGED ioVars

InitChain == InitCollections(3)

NextChain ==
  \/ \E i \in 1..Len(apis), props \in FunctionProps : AddFunction(i, props)
  \/ \E i \in 1..Len(apis), props \in TableProps : AddTable(i, props)
  \/ \E i \in 1..Len(apis), props \in EventProps : AddEvent(i, props)
  \/ ChainCall

SpecChain == InitChain /\ [][NextChain]_vars

(***************************************************************************)
(* Specification of identicalTo: the caller compares two entities of one   *)
(* kind, both ways, and combines a collection holding the first with a     *)
(* collection holding the second.                                          *)
(***************************************************************************)
\* The signature foo with a description, and a signature that differs from foo
\* in name, type and nilable.
FooDoc == [name |-> "foo", type |-> "string", nilable |-> TRUE, description |-> "a foo"]
Bar == [name |-> "bar", type |-> "number", nilable |-> FALSE]
Signatures == {Foo, FooDoc, Bar}

\* The signature lists of at most MaxSignatures signatures.
ComparedLists == UNION {[1..n -> Signatures] : n \in 0..MaxSignatures}

Names == {"FooBar", "BarBaz"}
\* props.ns: absent ('') or given
Namespaces == {"", "C_Map"}

ComparedFunctions ==
  {APIFunction([name |-> n, ns |-> ns, parameters |-> ps, returns |-> rs,
                version |-> SemVer(1)]) :
     n \in Names, ns \in Namespaces, ps \in ComparedLists, rs \in {<<>>, <<Foo>>}}

ComparedTables ==
  {APITable([name |-> n, ns |-> ns, fields |-> fs, version |-> SemVer(1)]) :
     n \in Names, ns \in Namespaces, fs \in ComparedLists}

ComparedEvents ==
  {APIEvent([name |-> n, literalName |-> ln, ns |-> ns, payload |-> pl,
             version |-> SemVer(1)]) :
     n \in Names, ln \in {"FOO_BAR", "BAR_BAZ"}, ns \in Namespaces, pl \in ComparedLists}

\* The list of a collection that holds the entities of the kind of e.
ListOf(e) ==
  CASE e.kind = "function" -> "functions"
    [] e.kind = "table"    -> "tables"
    [] e.kind = "event"    -> "events"

\* new API() with the one entity of identity id
Holding(e, id) == [NewAPI EXCEPT ![ListOf(e)] = <<id>>]

\* a.identicalTo(b), b.identicalTo(a), and whether left.combine(right) has one
\* entry when left holds a and right holds b at the next version
CompareCall(a, b) ==
  /\ pc = "idle"
  /\ comparison' =
       [of |-> <<a, b>>,
        identical |-> IdenticalTo(a, b),
        reverse |-> IdenticalTo(b, a),
        merged |-> Len(Combine(<<a, [b EXCEPT !.version = SemVer(2)]>>,
                               Holding(a, 1), Holding(b, 2)).api[ListOf(a)]) = 1]
  /\ pc' = "compared"
  /\ UNCHANGED <<heap, apis, builder, combined, filtered, target, before, regrouped>>
  /\ UNCHANGED <<loaded, written, exitCode, files, pending, again, scraper, web>>
  /\ UNCHANGED versionVars

InitIdentity == ApiIdle /\ VersionIdle

\* One comparison is made in a run.
NextIdentity ==
  /\ pc = "idle"
  /\ \/ \E a \in ComparedFunctions, b \in ComparedFunctions : CompareCall(a, b)
     \/ \E a \in ComparedTables, b \in ComparedTables : CompareCall(a, b)
     \/ \E a \in ComparedEvents, b \in ComparedEvents : CompareCall(a, b)

SpecIdentity == InitIdentity /\ [][NextIdentity]_vars

(***************************************************************************)
(* Specification of serialize / load: one collection is filled, one of     *)
(* its entities may be extended, and the collection is serialized and      *)
(* loaded again                                                            *)
(***************************************************************************)
Documentation == {"", "documented"}
StoredVersions ==
  {SemVer(1), NewRange(<<[op |-> ">", v |-> 1]>>), NewRange(<<PointToken(1)>>)}
StoredExtensions == {SemVer(2), NewRange(<<[op |-> "<", v |-> 2]>>)}

StoredFunctionProps ==
  {[name |-> "FooBar", description |-> d, parameters |-> ps, returns |-> <<>>,
    version |-> ver] :
     d \in Documentation, ps \in SignatureLists, ver \in StoredVersions}

StoredTableProps ==
  {[name |-> "FooBar", description |-> d, fields |-> fs, version |-> ver] :
     d \in Documentation, fs \in SignatureLists, ver \in StoredVersions}

StoredEventProps ==
  {[name |-> "FooBar", description |-> d, literalName |-> "FOO_BAR", payload |-> pl,
    version |-> ver] :
     d \in Documentation, pl \in SignatureLists, ver \in StoredVersions}

\* heap[id].extend(b), on the entity added last
ExtendEntity(id, b) ==
  /\ pc = "build"
  /\ id = Len(heap)
  /\ heap' = [heap EXCEPT ![id].version = Extend(@, b)]
  /\ pc' = "extended"
  /\ UNCHANGED <<apis, builder, combined, filtered, target, before, regrouped>>
  /\ UNCHANGED versionVars
  /\ UNCHANGED ioVars

\* loaded = API.load(apis[1].serialize())
RoundTripCall ==
  /\ pc \in {"build", "extended"}
  /\ \E r \in {Load(heap, Serialize(heap, apis[1]))} :
       /\ heap' = r.heap
       /\ loaded' = r.api
  /\ before' = heap
  /\ pc' = "loaded"
  /\ UNCHANGED <<apis, builder, combined, filtered, target, regrouped>>
  /\ UNCHANGED versionVars
  /\ UNCHANGED <<comparison, written, exitCode, files, pending, again, scraper, web>>

InitRoundTrip == InitCollections(1)

NextRoundTrip ==
  \/ \E props \in StoredFunctionProps : AddFunction(1, props)
  \/ \E props \in StoredTableProps : AddTable(1, props)
  \/ \E props \in StoredEventProps : AddEvent(1, props)
  \/ \E id \in 1..Len(heap), b \in StoredExtensions : ExtendEntity(id, b)
  \/ RoundTripCall

SpecRoundTrip == InitRoundTrip /\ [][NextRoundTrip]_vars

(***************************************************************************)
(* Specification of merge-sources: the script reads the files of inDir and *)
(* builds one merged output per valid version of its arguments             *)
(***************************************************************************)
\* The .json files a scrape leaves in inDir: serialized collections
FileFunctions ==
  {CreateFunction("FooBar", SemVer(1)),
   CreateFunction("FooBar", SemVer(2)),
   CreateFunction("BarBaz", NewRange(<<[op |-> ">", v |-> 1]>>))}
FileContents ==
  {Serialize(<<>>, NewAPI)}
  \cup {Serialize(<<f>>, [NewAPI EXCEPT !.functions = <<1>>]) : f \in FileFunctions}
FileLists == UNION {[1..n -> FileContents] : n \in 0..MaxFiles}

\* The semver arguments of the command line; '1.15.4' when none is given
Arguments == {<<PointToken(1)>>, <<PointToken(2)>>, <<[op |-> ">", v |-> 1]>>}
ArgumentLists == UNION {[1..n -> Arguments] : n \in 0..MaxArgs}
DefaultSemver == <<(<<PointToken(1)>>)>>
ValidVersions(argv) ==
  SelectSeq(IF argv = <<>> THEN DefaultSemver ELSE argv, Valid)

\* for (const file of files) { api = API.load(...); apiBuilder.add(api) }, from
\* the k-th file on: the heap and the collections after the loads
RECURSIVE LoadFilesFrom(_, _, _, _)
LoadFilesFrom(h, as, fs, k) ==
  IF k > Len(fs) THEN [heap |-> h, apis |-> as]
  ELSE CHOOSE out \in {LoadFilesFrom(r.heap, Append(as, r.api), fs, k + 1) :
                         r \in {Load(h, fs[k])}} : TRUE

\* One pass of the loop over validVersions: load and add every file, merge,
\* exit with 1 when merge gave null, else filter for the version and write
BuildFor ==
  /\ pc = "script"
  /\ pending # <<>>
  /\ \E ld \in {LoadFilesFrom(heap, apis, files, 1)} :
       /\ apis' = ld.apis
       /\ builder' = builder \o [i \in 1..Len(files) |-> Len(apis) + i]
       /\ \E m \in {MergeOrNull(ld.heap,
                                [i \in 1..Len(builder') |-> ld.apis[builder'[i]]])} :
            /\ heap' = m.heap
            /\ IF m.api = Null
               THEN /\ exitCode' = 1
                    /\ pc' = "exited"
                    /\ UNCHANGED <<combined, filtered, target, written, pending>>
               ELSE /\ combined' = m.api
                    /\ target' = Head(pending)[1].v
                    /\ filtered' = FilterForVersion(m.heap, m.api, target')
                    /\ written' = Append(written,
                                         [name |-> Head(pending),
                                          content |-> Serialize(m.heap, filtered')])
                    /\ pending' = Tail(pending)
                    /\ UNCHANGED <<exitCode, pc>>
  /\ before' = heap
  /\ UNCHANGED <<regrouped, comparison, loaded, files, again, scraper, web>>
  /\ UNCHANGED versionVars

\* The loop is over: the process ends with exit code 0
Finish ==
  /\ pc = "script"
  /\ pending = <<>>
  /\ exitCode' = 0
  /\ pc' = "exited"
  /\ UNCHANGED <<heap, apis, builder, combined, filtered, target, before, regrouped>>
  /\ UNCHANGED <<comparison, loaded, written, files, pending, again, scraper, web>>
  /\ UNCHANGED versionVars

InitScript ==
  /\ heap = <<>>
  /\ apis = <<>>
  /\ builder = <<>>
  /\ combined = NewAPI
  /\ filtered = NewAPI
  /\ target = 0
  /\ before = <<>>
  /\ regrouped = NewAPI
  /\ pc = "script"
  /\ comparison = NoComparison
  /\ loaded = NewAPI
  /\ written = <<>>
  /\ exitCode = -1
  /\ again = NewAPI
  /\ scraper = NoScraper
  /\ web = NoWeb
  /\ files \in FileLists
  /\ \E argv \in ArgumentLists : pending = ValidVersions(argv)
  /\ VersionIdle

NextScript ==
  \/ BuildFor
  \/ Finish

SpecScript == InitScript /\ [][NextScript]_vars

(***************************************************************************)
(* Specification of the adapters: the wiki scraper and the parser of the   *)
(* source repository fill one collection                                   *)
(***************************************************************************)
\* What a page says under 'Patch changes': the version of the 'added' line and
\* of the 'removed' line, 0 when the page has no such line
PatchVersions == 0..2

\* extractSemanticRange(since, until)
ExtractSemanticRange(since, until) ==
  NewRange((IF since # 0 THEN <<[op |-> ">=", v |-> since]>> ELSE <<>>)
           \o (IF until # 0 THEN <<[op |-> "<", v |-> until]>> ELSE <<>>))

\* extractFunction(...): the function a wiki page describes
ExtractFunction(since, until) ==
  [name |-> "FooBar", description |-> "documented", parameters |-> <<>>,
   returns |-> <<>>, events |-> <<>>, version |-> ExtractSemanticRange(since, until)]

\* scrape-warcraft-wiki: api.addFunction(new APIFunction(func))
ScrapeFunction(since, until) == AddFunction(1, ExtractFunction(since, until))

\* scrape-wow-ui-source: new APIFunction({ ...f, version: new SemVer(version), ns })
ParseFunction(v) ==
  AddFunction(1, [name |-> "FooBar", parameters |-> <<>>, returns |-> <<>>,
                  version |-> SemVer(v), ns |-> "C_Map"])

\* scrape-wow-ui-source: new APIEvent({ ...e, version: new SemVer(version), ns })
ParseEvent(v) ==
  AddEvent(1, [name |-> "FooBar", literalName |-> "FOO_BAR", payload |-> <<>>,
               version |-> SemVer(v), ns |-> "C_Map"])

\* scrape-wow-ui-source: new APITable({ ...e, version: new SemVer(version), ns })
ParseTable(v) ==
  AddTable(1, [name |-> "FooBar", fields |-> <<>>, version |-> SemVer(v),
               ns |-> "C_Map"])

InitAdapters == InitCollections(1)

NextAdapters ==
  \/ \E since \in PatchVersions, until \in PatchVersions : ScrapeFunction(since, until)
  \/ \E v \in Points : ParseFunction(v)
  \/ \E v \in Points : ParseEvent(v)
  \/ \E v \in Points : ParseTable(v)

SpecAdapters == InitAdapters /\ [][NextAdapters]_vars

(***************************************************************************)
(* Specification of a merge of scraped collections: every collection holds *)
(* entities at one point version, as scrape-wow-ui-source writes them      *)
(***************************************************************************)
\* The entities of a scraped collection, by their props without the version
ScrapedLists == {<<>>, <<Foo, Foo>>, <<Foo, Bar>>}
ScrapedFunctions ==
  {[name |-> "FooBar", parameters |-> ps, returns |-> <<>>] : ps \in ScrapedLists}
ScrapedTables == {[name |-> "FooBar", fields |-> <<>>]}

\* props with version: new SemVer(version)
AtVersion(props, v) ==
  [k \in DOMAIN props \cup {"version"} |-> IF k = "version" THEN SemVer(v) ELSE props[k]]

\* api = new API(); api.addFunction(new APIFunction({...f, version})) for both
\* functions of fs (one when they are the same); apiBuilder.add(api)
AddScrapedFunctions(fs, v) ==
  /\ pc = "build"
  /\ Len(heap) + Cardinality(fs) <= MaxEntities
  /\ \E order \in {o \in [1..Cardinality(fs) -> fs] : \A f \in fs : \E i \in DOMAIN o : o[i] = f} :
       /\ heap' = heap \o [i \in 1..Cardinality(fs) |-> APIFunction(AtVersion(order[i], v))]
       /\ apis' = Append(apis, [NewAPI EXCEPT
                                  !.functions = [i \in 1..Cardinality(fs) |-> Len(heap) + i]])
  /\ builder' = Append(builder, Len(apis) + 1)
  /\ UNCHANGED <<combined, filtered, target, before, regrouped, pc>>
  /\ UNCHANGED versionVars
  /\ UNCHANGED ioVars

\* api = new API(); api.addTable(new APITable({...t, version})); apiBuilder.add(api)
AddScrapedTable(t, v) ==
  /\ pc = "build"
  /\ Len(heap) < MaxEntities
  /\ heap' = Append(heap, APITable(AtVersion(t, v)))
  /\ apis' = Append(apis, [NewAPI EXCEPT !.tables = <<Len(heap) + 1>>])
  /\ builder' = Append(builder, Len(apis) + 1)
  /\ UNCHANGED <<combined, filtered, target, before, regrouped, pc>>
  /\ UNCHANGED versionVars
  /\ UNCHANGED ioVars

InitMerge == InitCollections(0)

NextMerge ==
  \/ \E f \in ScrapedFunctions, g \in ScrapedFunctions, v \in Points :
       AddScrapedFunctions({f, g}, v)
  \/ \E t \in ScrapedTables, v \in Points : AddScrapedTable(t, v)
  \/ MergeCall
  \/ \E v \in TestPoints : FilterCall(v)

SpecMerge == InitMerge /\ [][NextMerge]_vars

(***************************************************************************)
(* Specification of a repeated merge: collections from the wiki (ranges)   *)
(* and from the source repository (points) are added, and merge() is       *)
(* called twice                                                            *)
(***************************************************************************)
\* The versions of the one function a collection holds
MergedVersions ==
  PointVersions
  \cup {ExtractSemanticRange(since, until) : since \in PatchVersions, until \in PatchVersions}

\* api = new API() with the function FooBar at version ver; apiBuilder.add(api)
AddCollectionAt(ver) ==
  /\ pc = "build"
  /\ Len(builder) < MaxAdds
  /\ heap' = Append(heap, CreateFunction("FooBar", ver))
  /\ apis' = Append(apis, [NewAPI EXCEPT !.functions = <<Len(heap) + 1>>])
  /\ builder' = Append(builder, Len(apis) + 1)
  /\ UNCHANGED <<combined, filtered, target, before, regrouped, pc>>
  /\ UNCHANGED versionVars
  /\ UNCHANGED ioVars

\* apiBuilder.merge() once more, with no add() since the first call
MergeAgain ==
  /\ pc = "merged"
  /\ \E r \in {MergeOrNull(heap, [i \in 1..Len(builder) |-> apis[builder[i]]])} :
       /\ heap' = r.heap
       /\ again' = r.api
  /\ before' = heap
  /\ pc' = "remerged"
  /\ UNCHANGED <<apis, builder, combined, filtered, target, regrouped>>
  /\ UNCHANGED versionVars
  /\ UNCHANGED <<comparison, loaded, written, exitCode, files, pending, scraper, web>>

InitRemerge == InitCollections(0)

NextRemerge ==
  \/ \E ver \in MergedVersions : AddCollectionAt(ver)
  \/ MergeCall
  \/ MergeAgain

SpecRemerge == InitRemerge /\ [][NextRemerge]_vars

(***************************************************************************)
(* Specification of WikiScraper.visitPage: the pages are visited one after *)
(* the other; the origin answers a request with the page or with the block *)
(* notice                                                                  *)
(***************************************************************************)
Pages == {"API_Foo", "API_Bar"}
\* What a file of the cache directory, or an answer of the origin, holds:
\* isCloudflareBlockedNotice(content) is true of "notice" only.
Contents == {"notice", "html"}

\* resourceReference(path): this.cachedFiles[path] || `${origin}/wiki/${path}`
ResourceReference(cachedFiles, path) ==
  IF path \in cachedFiles THEN "file" ELSE "origin"

\* cachePage that throws on a block notice without forgetting the cached file
CachePageKeepsEntry(cachedFiles, cached, path, html) ==
  IF html = "notice"
  THEN [cachedFiles |-> cachedFiles, files |-> cached, thrown |-> TRUE]
  ELSE IF cached[path] # "none"
  THEN [cachedFiles |-> cachedFiles \cup {path}, files |-> cached, thrown |-> FALSE]
  ELSE [cachedFiles |-> cachedFiles, files |-> [cached EXCEPT ![path] = html],
        thrown |-> FALSE]

\* cachePage(page, resourcePath) when the page shows html: on a block notice the
\* entry of cachedFiles and the file are removed and an error is thrown (by
\* rmSync itself when there is no file); else the file that exists is entered in
\* cachedFiles, or the content is written to a new file
CachePage(cachedFiles, cached, path, html) ==
  IF html = "notice"
  THEN [cachedFiles |-> cachedFiles \ {path}, files |-> [cached EXCEPT ![path] = "none"],
        thrown |-> TRUE]
  ELSE IF cached[path] # "none"
  THEN [cachedFiles |-> cachedFiles \cup {path}, files |-> cached, thrown |-> FALSE]
  ELSE [cachedFiles |-> cachedFiles, files |-> [cached EXCEPT ![path] = html],
        thrown |-> FALSE]

\* visitPage(page, resourcePath) is called: let isBlockedByCloudflare = true
VisitPage(path) ==
  /\ scraper.pc = "idle"
  /\ scraper' = [scraper EXCEPT !.pc = "goto", !.resourcePath = path,
                                !.isBlockedByCloudflare = TRUE]
  /\ web' = [web EXCEPT !.requests = <<>>]

\* await page.goto(this.resourceReference(resourcePath)): the page shows the
\* cached file, or what the origin answers
Goto(answer) ==
  /\ scraper.pc = "goto"
  /\ Len(web.requests) < MaxAttempts
  /\ \E ref \in {ResourceReference(scraper.cachedFiles, scraper.resourcePath)} :
       \E html \in {IF ref = "file" THEN web.files[scraper.resourcePath] ELSE answer} :
         web' = [web EXCEPT !.content = html,
                            !.requests = Append(@, [reference |-> ref, content |-> html])]
  /\ scraper' = [scraper EXCEPT !.pc = "cachePage"]

\* try { await this.cachePage(...); isBlockedByCloudflare = false } catch { ... }
TryCachePage ==
  /\ scraper.pc = "cachePage"
  /\ \E r \in {CachePage(scraper.cachedFiles, web.files, scraper.resourcePath,
                         web.content)} :
       /\ scraper' = [scraper EXCEPT
                        !.cachedFiles = r.cachedFiles,
                        !.isBlockedByCloudflare = IF r.thrown THEN @ ELSE FALSE,
                        !.pc = IF r.thrown THEN "sleep" ELSE "while"]
       /\ web' = [web EXCEPT !.files = r.files]

\* await sleep(...) is over
Sleep ==
  /\ scraper.pc = "sleep"
  /\ scraper' = [scraper EXCEPT !.pc = "while"]
  /\ UNCHANGED web

\* while (isBlockedByCloudflare): the next attempt, or visitPage returns
While ==
  /\ scraper.pc = "while"
  /\ scraper' = [scraper EXCEPT
                   !.pc = IF scraper.isBlockedByCloudflare THEN "goto" ELSE "returned"]
  /\ UNCHANGED web

\* the caller goes on to its next page
Return ==
  /\ scraper.pc = "returned"
  /\ scraper' = [scraper EXCEPT !.pc = "idle"]
  /\ UNCHANGED web

\* new WikiScraper(...), listPages() on a cache directory that holds some of the
\* pages, some of them stored when the origin had answered with the notice
InitScraper ==
  /\ heap = <<>>
  /\ apis = <<>>
  /\ builder = <<>>
  /\ combined = NewAPI
  /\ filtered = NewAPI
  /\ target = 0
  /\ before = <<>>
  /\ regrouped = NewAPI
  /\ pc = "idle"
  /\ comparison = NoComparison
  /\ loaded = NewAPI
  /\ written = <<>>
  /\ exitCode = -1
  /\ files = <<>>
  /\ pending = <<>>
  /\ again = NewAPI
  /\ VersionIdle
  /\ \E cached \in [Pages -> Contents \cup {"none"}] :
       /\ web = [files |-> cached, content |-> "", requests |-> <<>>]
       /\ scraper = [cachedFiles |-> {path \in Pages : cached[path] # "none"},
                     pc |-> "idle", resourcePath |-> "",
                     isBlockedByCloudflare |-> TRUE]

NextScraper ==
  /\ \/ \E path \in Pages : VisitPage(path)
     \/ \E answer \in Contents : Goto(answer)
     \/ TryCachePage
     \/ Sleep
     \/ While
     \/ Return
  /\ UNCHANGED versionVars
  /\ UNCHANGED apiVars
  /\ UNCHANGED <<comparison, loaded, written, exitCode, files, pending, again>>

SpecScraper == InitScraper /\ [][NextScraper]_vars

\* Every step of visitPage is taken in the end: a navigation, a write and a
\* sleep all complete.
FairScraper == SpecScraper /\ WF_vars(NextScraper)

(***************************************************************************)
(* Claims on Version.extend (checked under SpecVersion)                    *)
(***************************************************************************)
\* An extend call was made: previous.extend(extendingVersion) gave version.
Extended == calls > 0

\* C4: Version.extend never narrows: every point version that the receiver
\* or the argument accepted before the call is accepted by the receiver
\* after it, whatever the kinds of the two.
C4_ExtendNeverNarrows ==
  Extended =>
    (AcceptSet(previous) \cup AcceptSet(extendingVersion)) \subseteq AcceptSet(version)

\* C8: a version holding the point v1, extended by the point v2 (v1 = v2
\* included), accepts v1 and accepts v2.
C8_PointPointAcceptsBoth ==
  (Extended /\ IsSemVer(previous) /\ IsSemVer(extendingVersion)) =>
    /\ Accepts(version, previous.v)
    /\ Accepts(version, extendingVersion.v)

C8_Witness ==
  /\ Extended
  /\ IsSemVer(previous) /\ IsSemVer(extendingVersion)
  /\ previous.v # extendingVersion.v
  /\ AcceptSet(version) = {previous.v, extendingVersion.v}

\* C9: a range R extended by a point p that R does not accept: the result
\* accepts p and every point version R accepted, and its serialized form is
\* R's form, then '||', then p.
C9_RangePointOutside ==
  (Extended /\ IsRange(previous) /\ IsSemVer(extendingVersion)
     /\ ~Accepts(previous, extendingVersion.v)) =>
    /\ Accepts(version, extendingVersion.v)
    /\ AcceptSet(previous) \subseteq AcceptSet(version)
    /\ Format(version) = Format(previous) \o <<OrToken, PointToken(extendingVersion.v)>>

C9_Witness ==
  /\ Extended
  /\ IsRange(previous) /\ IsSemVer(extendingVersion)
  /\ ~Accepts(previous, extendingVersion.v)
  /\ AcceptSet(previous) # {}
  /\ Len(version.set) = Len(previous.set) + 1

\* C10: a range R extended by a point p that R accepts keeps its serialized
\* form; for the unconstrained range '*' the form stays the empty string.
C10_RangePointInside ==
  (Extended /\ IsRange(previous) /\ IsSemVer(extendingVersion)
     /\ Accepts(previous, extendingVersion.v)) =>
    /\ Format(version) = Format(previous)
    /\ (previous = NewRange(<<>>) => Format(version) = <<>>)

C10_Witness ==
  /\ Extended
  /\ IsRange(previous) /\ IsSemVer(extendingVersion)
  /\ Accepts(previous, extendingVersion.v)
  /\ previous # NewRange(<<>>)
  /\ Format(version) = Format(previous)

\* C11: a version holding the point p, extended by the range R: the result is
\* R itself when R accepts p, and otherwise p OR-ed onto R (its serialized
\* form is p, '||', R's form); in both cases the result accepts p and every
\* point version R accepted.
C11_PointRange ==
  (Extended /\ IsSemVer(previous) /\ IsRange(extendingVersion)) =>
    /\ IF Accepts(extendingVersion, previous.v)
       THEN version = extendingVersion
       ELSE Format(version) = <<PointToken(previous.v), OrToken>> \o Format(extendingVersion)
    /\ Accepts(version, previous.v)
    /\ AcceptSet(extendingVersion) \subseteq AcceptSet(version)

C11_Witness ==
  /\ Extended
  /\ IsSemVer(previous) /\ IsRange(extendingVersion)
  /\ ~Accepts(extendingVersion, previous.v)
  /\ AcceptSet(extendingVersion) # {}
  /\ AcceptSet(version) = AcceptSet(extendingVersion) \cup {previous.v}

\* A range was extended by a range.
RangeExtendedByRange == Extended /\ IsRange(previous) /\ IsRange(extendingVersion)

\* The one-comparator range '<op>x.0.0'.
RangeOf(op, x) == NewRange(<<[op |-> op, v |-> x]>>)

NeitherIsSubset ==
  ~Subset(previous, extendingVersion) /\ ~Subset(extendingVersion, previous)

\* C13 as stated: a range extended by a range, neither a subset of the other:
\* the result's serialized form is the left range's form, one space, then the
\* right range's form.
C13_FormIsLeftBlankRight ==
  (RangeExtendedByRange /\ NeitherIsSubset) =>
    Format(version) = Format(previous) \o Format(extendingVersion)

\* The comparator c occurs in the last comparator set of the range l.
InLastSet(l, c) == \E i \in 1..Len(l.set[Len(l.set)]) : l.set[Len(l.set)][i] = c

\* The serialized form of the range r without the comparators of its first
\* comparator set that occur in the last comparator set of the range l.
WithoutRepeats(l, r) ==
  SelectSeq(FormatSet(r.set[1]), LAMBDA c : ~InLastSet(l, c))
    \o SubSeq(Format(r), Len(FormatSet(r.set[1])) + 1, Len(Format(r)))

\* C13 as amended: a range extended by a range, neither a subset of the other:
\* the result's serialized form is the comparators of the left range's form
\* followed by those of the right range's form ('*' has none), except that a
\* comparator of the right range's first comparator set that already occurs
\* in the left range's last comparator set is written once ('>1.0.0' extended
\* by '<=2.0.0' gives '>1.0.0 <=2.0.0', '>1.0.0' extended by '<1.0.0' gives
\* '>1.0.0 <1.0.0').
C13_FormIsLeftBlankRightOnce ==
  /\ (RangeExtendedByRange /\ NeitherIsSubset) =>
       Format(version) = Format(previous) \o WithoutRepeats(previous, extendingVersion)
  /\ (Extended /\ previous = RangeOf(">", 1) /\ extendingVersion = RangeOf("<=", 2)) =>
       Format(version) = <<[op |-> ">", v |-> 1], [op |-> "<=", v |-> 2]>>
  /\ (Extended /\ previous = RangeOf(">", 1) /\ extendingVersion = RangeOf("<", 1)) =>
       Format(version) = <<[op |-> ">", v |-> 1], [op |-> "<", v |-> 1]>>

C13_Witness ==
  /\ RangeExtendedByRange
  /\ NeitherIsSubset
  /\ Len(Format(version)) < Len(Format(previous)) + Len(Format(extendingVersion))
  /\ Len(version.set) = 3

\* C21: after any call of Version.extend, whatever the kinds of the receiver and
\* of the argument, the receiver's version is a range, never a point
C21_ExtendGivesRange == calls > 0 => IsRange(version)

\* a point was extended by the same point and became a range
C21_Witness ==
  /\ calls > 0
  /\ IsSemVer(previous)
  /\ previous = extendingVersion
  /\ IsRange(version)

\* C29: extend is commutative in what it accepts: the point versions accepted
\* after a.extend(b) are those accepted after b.extend(a), for points and ranges,
\* ranges of several '||' branches included
C29_ExtendCommutes ==
  Extended => AcceptSet(version) = AcceptSet(swapped)

(***************************************************************************)
(* Claims on API.combine and API.filterForVersion (checked under Spec)     *)
(***************************************************************************)
Kinds == {"functions", "tables", "events"}
Left == apis[1]
Right == apis[2]

\* The identities a list holds.
Ids(list) == {list[i] : i \in 1..Len(list)}
\* The position of identity id in a list that holds it once.
PosOf(list, id) == CHOOSE i \in 1..Len(list) : list[i] = id
\* The entities of a list that carry the name n.
Named(h, list, n) == {id \in Ids(list) : h[id].name = n}
\* The entities combine appended to the left list of kind k.
Appended(k) == Ids(SubSeq(combined[k], Len(Left[k]) + 1, Len(combined[k])))

\* C1: left holds one function N at point v1, right one function N at point
\* v2 with the same namespace, parameter list and return list: the result
\* holds exactly one function named N, and its version is a range that
\* accepts v1 and v2.
C1_IdenticalFunctionsMergeIntoRange ==
  (/\ pc = "combined"
   /\ Len(Left.functions) = 1 /\ Len(Right.functions) = 1
   /\ LET l == before[Left.functions[1]]
          r == before[Right.functions[1]]
      IN /\ l.name = r.name /\ l.ns = r.ns
         /\ l.parameters = r.parameters /\ l.returns = r.returns
         /\ IsSemVer(l.version) /\ IsSemVer(r.version)) =>
    LET l == before[Left.functions[1]]
        r == before[Right.functions[1]]
        named == {i \in 1..Len(combined.functions) : heap[combined.functions[i]].name = l.name}
    IN /\ Cardinality(named) = 1
       /\ \A i \in named :
            /\ IsRange(heap[combined.functions[i]].version)
            /\ Accepts(heap[combined.functions[i]].version, l.version.v)
            /\ Accepts(heap[combined.functions[i]].version, r.version.v)

C1_Witness ==
  /\ pc = "combined"
  /\ Len(Left.functions) = 1 /\ Len(Right.functions) = 1
  /\ before[Left.functions[1]].version = SemVer(1)
  /\ before[Right.functions[1]].version = SemVer(2)
  /\ before[Left.functions[1]].name = before[Right.functions[1]].name
  /\ before[Left.functions[1]].parameters = before[Right.functions[1]].parameters
  /\ before[Left.functions[1]].returns = before[Right.functions[1]].returns
  /\ Len(combined.functions) = 1
  /\ AcceptSet(heap[combined.functions[1]].version) = {1, 2}

RECURSIVE ExtendAll(_, _)
ExtendAll(ver, others) ==
  IF others = <<>> THEN ver
  ELSE ExtendAll(Extend(ver, Head(others)), Tail(others))

\* The position in list of the first entity with the name of id; 0 if none.
FirstNamed(h, list, id) == FindByName(h, list, h[id].name)

\* The versions, in order, of the right entities of kind k that carry the
\* name of l and are structurally identical to it.
VersionsFoldedInto(k, l) ==
  LET matching == SelectSeq(Right[k],
                    LAMBDA r : before[r].name = before[l].name
                               /\ IdenticalTo(before[l], before[r]))
  IN [i \in 1..Len(matching) |-> before[matching[i]].version]

\* C3 as stated: for every right entity r, if the left collection holds any
\* entity of the same kind and name that is structurally identical to r,
\* then r is not appended and that left entity's version is extended by r's.
C3_AnyIdenticalLeftEntityAbsorbs ==
  pc = "combined" =>
    \A k \in Kinds : \A r \in Ids(Right[k]) :
      LET same == {l \in Ids(Left[k]) :
                     before[l].name = before[r].name /\ IdenticalTo(before[l], before[r])}
      IN same # {} =>
           /\ r \notin Appended(k)
           /\ \E l \in same :
                heap[l].version = ExtendAll(before[l].version, VersionsFoldedInto(k, l))

\* C3 as amended: for every right entity r, if the first entity of the left
\* collection of the same kind that carries r's name is structurally
\* identical to r, then r is not appended and that left entity's version is
\* extended by r's version (by the versions of all such r, in their order).
C3_FirstIdenticalLeftEntityAbsorbs ==
  pc = "combined" =>
    \A k \in Kinds : \A r \in Ids(Right[k]) :
      LET pos == FirstNamed(before, Left[k], r)
      IN (pos # 0 /\ IdenticalTo(before[Left[k][pos]], before[r])) =>
           /\ r \notin Appended(k)
           /\ heap[r].version = before[r].version
           /\ heap[Left[k][pos]].version =
                ExtendAll(before[Left[k][pos]].version, VersionsFoldedInto(k, Left[k][pos]))
           /\ IsRange(heap[Left[k][pos]].version)

C3_Witness ==
  /\ pc = "combined"
  /\ \E k \in Kinds :
       /\ Len(Left[k]) = 1 /\ Len(Right[k]) = 2
       /\ \A j \in 1..2 : IdenticalTo(before[Left[k][1]], before[Right[k][j]])
       /\ IsRange(before[Right[k][1]].version)
       /\ combined[k] = Left[k]
       /\ heap[Left[k][1]].version # before[Left[k][1]].version

\* The first entity with the name of r in the list combine leaves for kind k: the
\* one combineItems finds when r comes up, unless r is that entity itself.
FoundFor(k, r) == combined[k][FirstNamed(before, combined[k], r)]

\* The versions, in order, of the right entities of kind k, other than f, that
\* carry the name of f and are structurally identical to it.
AbsorbedBy(k, f) ==
  LET matching == SelectSeq(Right[k],
                    LAMBDA r : r # f /\ before[r].name = before[f].name
                               /\ IdenticalTo(before[f], before[r]))
  IN [i \in 1..Len(matching) |-> before[matching[i]].version]

\* C23: combineItems tests a right entity only against the first entity of the
\* accumulated list that has its name.  If that one is not identical, the right
\* entity is appended, with its version unchanged, also when a later entity of
\* the name is identical to it; if it is identical, the right entity is not
\* appended and the version of the first entity is extended.  No entity of the
\* name other than the first changes its version.
C23_OnlyFirstNamedIsTested ==
  pc = "combined" =>
    \A k \in Kinds : \A r \in Ids(Right[k]) :
      /\ (FoundFor(k, r) # r /\ ~IdenticalTo(before[FoundFor(k, r)], before[r])) =>
           /\ r \in Appended(k)
           /\ heap[r].version = before[r].version
      /\ (FoundFor(k, r) # r /\ IdenticalTo(before[FoundFor(k, r)], before[r])) =>
           /\ r \notin Ids(combined[k])
           /\ heap[FoundFor(k, r)].version =
                ExtendAll(before[FoundFor(k, r)].version, AbsorbedBy(k, FoundFor(k, r)))
      /\ \A o \in Named(before, combined[k], before[r].name) \ {FoundFor(k, r)} :
           heap[o].version = before[o].version

\* the left list holds two entities of one name, the second identical to the
\* right entity and the first not: the right entity was appended
C23_Witness ==
  /\ pc = "combined"
  /\ \E k \in Kinds :
       /\ Len(Left[k]) = 2 /\ Len(Right[k]) = 1
       /\ before[Left[k][1]].name = before[Right[k][1]].name
       /\ before[Left[k][2]].name = before[Right[k][1]].name
       /\ ~IdenticalTo(before[Left[k][1]], before[Right[k][1]])
       /\ IdenticalTo(before[Left[k][2]], before[Right[k][1]])
       /\ combined[k] = <<Left[k][1], Left[k][2], Right[k][1]>>
       /\ heap[Left[k][2]].version = before[Left[k][2]].version

\* C26: left.combine(right) leaves the right collection unchanged: its three
\* lists hold the same entities in the same order, and every entity of right has
\* the version it had before the call
C26_CombineLeavesRightUnchanged ==
  [][pc' = "combined" =>
       /\ apis'[2] = apis[2]
       /\ \A k \in Kinds : \A r \in Ids(apis[2][k]) :
            heap'[r].version = heap[r].version]_vars

\* What the claim says a version accepts: a point accepts only itself, a
\* range what its comparator sets accept.
ClaimedToAccept(ver, x) ==
  IF IsSemVer(ver) THEN ver.v = x ELSE RangeTest(ver, x)

\* list is a subsequence of source: its members keep their order in source.
InSourceOrder(list, source) ==
  \A p, q \in 1..Len(list) :
    p < q => PosOf(source, list[p]) < PosOf(source, list[q])

\* C6 (state part): after combined.filterForVersion(target) the result holds,
\* per kind and in source order, exactly the entities of the source whose
\* version accepts target; a name none of whose entities accepts target has
\* no entity in the result.
C6_FilterResult ==
  pc = "filtered" =>
    /\ \A k \in Kinds :
         /\ Ids(filtered[k]) =
              {id \in Ids(combined[k]) : ClaimedToAccept(heap[id].version, target)}
         /\ Len(filtered[k]) = Cardinality(Ids(filtered[k]))
         /\ InSourceOrder(filtered[k], combined[k])
         /\ \A id \in Ids(combined[k]) :
              (\A other \in Named(heap, combined[k], heap[id].name) :
                 ~ClaimedToAccept(heap[other].version, target))
                => Named(heap, filtered[k], heap[id].name) = {}

\* C6: API.filterForVersion(v) returns a new collection with exactly the
\* functions, tables and events of the source whose version accepts v, in
\* source order, and the call changes neither the source collection nor
\* its entities.
C6_FilterForVersion ==
  /\ []C6_FilterResult
  /\ [][pc' = "filtered" => (heap' = heap /\ combined' = combined /\ apis' = apis)]_vars

C6_Witness ==
  /\ pc = "filtered"
  /\ \E k \in Kinds :
       /\ Len(combined[k]) = 3
       /\ Len(filtered[k]) = 1
       /\ IsRange(heap[filtered[k][1]].version)
       /\ \E id \in Ids(combined[k]) :
            /\ IsSemVer(heap[id].version)
            /\ heap[id].version.v < target
            /\ heap[id].name = heap[filtered[k][1]].name

\* The right entity at position i of kind k meets no entity of its name: none
\* in the left list and none before it in the right list.
MeetsNoName(k, i) ==
  /\ Named(before, Left[k], before[Right[k][i]].name) = {}
  /\ \A j \in 1..(i - 1) : before[Right[k][j]].name # before[Right[k][i]].name

\* C17: API.combine never deletes: for each kind the result starts with the
\* entities of the left collection in their order, every right entity whose
\* name matches no entity already in the result is appended, and the result
\* has at least as many entities as left and at most as many as left plus
\* right.
C17_CombineNeverDeletes ==
  pc = "combined" =>
    \A k \in Kinds :
      /\ Len(combined[k]) >= Len(Left[k])
      /\ Len(combined[k]) <= Len(Left[k]) + Len(Right[k])
      /\ SubSeq(combined[k], 1, Len(Left[k])) = Left[k]
      /\ Appended(k) \subseteq Ids(Right[k])
      /\ \A i \in 1..Len(Right[k]) : MeetsNoName(k, i) => Right[k][i] \in Appended(k)

C17_Witness ==
  /\ pc = "combined"
  /\ \E k \in Kinds :
       /\ Len(Left[k]) = 1 /\ Len(Right[k]) = 2
       /\ Len(combined[k]) = 2
       /\ MeetsNoName(k, 2)
       /\ ~IdenticalTo(before[Left[k][1]], before[Right[k][2]])
       /\ heap[Left[k][1]].version # before[Left[k][1]].version

\* C20: A.combine(empty) holds the entities of A, in the same order, each
\* with the version it had before the call.
C20_CombineWithEmpty ==
  (pc = "combined" /\ Right = NewAPI) =>
    /\ \A k \in Kinds : combined[k] = Left[k]
    /\ heap = before

C20_Witness ==
  /\ pc = "combined"
  /\ Right = NewAPI
  /\ \E k \in Kinds :
       /\ Len(combined[k]) = 3
       /\ IdenticalTo(heap[combined[k][1]], heap[combined[k][2]])
       /\ IsRange(heap[combined[k][3]].version)

(***************************************************************************)
(* Claims on chained combines (SpecChain) and APIBuilder (SpecBuilder)     *)
(***************************************************************************)
\* An entity with its version replaced by the point versions it accepts.
AcceptView(e) == [e EXCEPT !.version = AcceptSet(e.version)]

\* C5: API.combine is associative: combine(combine(A, B), C) and
\* combine(A, combine(B, C)) hold the same entities of each kind in the same
\* order, with versions that accept the same point versions.
C5_CombineAssociative ==
  pc = "chained" =>
    \A k \in Kinds :
      /\ Len(combined[k]) = Len(regrouped[k])
      /\ \A i \in 1..Len(combined[k]) :
           i <= Len(regrouped[k]) =>
             AcceptView(heap[combined[k][i]]) = AcceptView(regrouped[k][i])

\* The builder holds the collections for versions 1.0.0, 2.0.0 and 3.0.0, added
\* in that order.
ThreeVersionsAdded ==
  /\ Len(builder) = 3
  /\ \A i \in 1..3 : before[apis[builder[i]].functions[1]].version = SemVer(i)

\* C7: merge is the left fold of combine over the added collections with the
\* first as seed: with the collections for 1.0.0, 2.0.0 and 3.0.0 added in
\* that order, merge then filterForVersion(2.0.0) yields exactly the three
\* functions Foo, Bar, Baz, in that order, with the serialized versions
\* '1.0.0||2.0.0||3.0.0', '>1.0.0' and '<3.0.0'.
C7_MergeIsLeftFold ==
  /\ (pc = "merged" /\ Len(builder) = 2) =>
       [heap |-> heap, api |-> combined] =
         Combine(before, apis[builder[1]], apis[builder[2]])
  /\ (pc = "merged" /\ Len(builder) = 3) =>
       LET first == Combine(before, apis[builder[1]], apis[builder[2]])
       IN [heap |-> heap, api |-> combined] =
            Combine(first.heap, first.api, apis[builder[3]])
  /\ (pc = "filtered" /\ target = 2 /\ ThreeVersionsAdded) =>
       /\ filtered.tables = <<>> /\ filtered.events = <<>>
       /\ Len(filtered.functions) = 3
       /\ [i \in 1..3 |-> heap[filtered.functions[i]].name] = <<"Foo", "Bar", "Baz">>
       /\ Format(heap[filtered.functions[1]].version)
            = <<PointToken(1), OrToken, PointToken(2), OrToken, PointToken(3)>>
       /\ Format(heap[filtered.functions[2]].version) = <<[op |-> ">", v |-> 1]>>
       /\ Format(heap[filtered.functions[3]].version) = <<[op |-> "<", v |-> 3]>>

C7_Witness ==
  /\ pc = "filtered"
  /\ target = 2
  /\ ThreeVersionsAdded
  /\ Len(filtered.functions) = 3

(***************************************************************************)
(* Claims on identicalTo (checked under SpecIdentity)                      *)
(***************************************************************************)
Compared == pc = "compared"
A == comparison.of[1]
B == comparison.of[2]

\* The signature lists identicalTo compares for an entity of the kind of e.
ComparedListsOf(e) ==
  CASE e.kind = "function" -> {"parameters", "returns"}
    [] e.kind = "table"    -> {"fields"}
    [] e.kind = "event"    -> {"payload"}

\* The signature s has a matching signature in the list.
HasMatchIn(s, list) == \E j \in 1..Len(list) : IdenticalSignature(s, list[j])

\* C14: a.identicalTo(b) is true exactly when the names are equal, the
\* namespaces are equal, for events the literalNames are equal, and each
\* compared signature list of a has the length of b's list and every
\* signature of a's list has a matching signature in b's list; a length
\* mismatch yields false (and the comparison of every pair has a result).
C14_IdenticalToCriteria ==
  Compared =>
    /\ comparison.identical =
         (/\ A.name = B.name
          /\ A.ns = B.ns
          /\ (A.kind = "event" => A.literalName = B.literalName)
          /\ \A l \in ComparedListsOf(A) :
               /\ Len(A[l]) = Len(B[l])
               /\ \A i \in 1..Len(A[l]) : HasMatchIn(A[l][i], B[l]))
    /\ (\E l \in ComparedListsOf(A) : Len(A[l]) # Len(B[l])) => comparison.identical = FALSE
    /\ comparison.identical \in BOOLEAN

C14_Witness ==
  /\ Compared
  /\ comparison.identical
  /\ A.kind = "event"
  /\ A.ns = "C_Map"
  /\ Len(A.payload) = 2
  /\ A.payload # B.payload

\* The signatures of the compared lists of e carry name, type and nilable only.
PlainLists(e) ==
  \A l \in ComparedListsOf(e) : \A i \in 1..Len(e[l]) : DOMAIN e[l][i] = DOMAIN Foo

\* C15: whenever a.identicalTo(b) is true, every signature of b's compared
\* lists has a matching signature in a's list as well (the lists are equal as
\* sets), and a.identicalTo(b) = b.identicalTo(a).  Stated for signatures
\* that carry no field besides name, type and nilable.
C15_IdenticalListsMatchAsSets ==
  (Compared /\ PlainLists(A) /\ PlainLists(B)) =>
    /\ comparison.identical =>
         \A l \in ComparedListsOf(A) : \A j \in 1..Len(B[l]) : HasMatchIn(B[l][j], A[l])
    /\ comparison.identical = comparison.reverse

\* What the claim compares of a signature.
Core(sig) == [name |-> sig.name, type |-> sig.type, nilable |-> sig.nilable]

\* The two entities differ at most in fields of their signatures other than
\* name, type and nilable.
DifferInMetadataOnly(a, b) ==
  /\ a.name = b.name
  /\ a.ns = b.ns
  /\ (a.kind = "event" => a.literalName = b.literalName)
  /\ \A l \in ComparedListsOf(a) :
       /\ Len(a[l]) = Len(b[l])
       /\ \A i \in 1..Len(a[l]) : Core(a[l][i]) = Core(b[l][i])

\* C16: two signatures are judged equal exactly when name, type and nilable
\* are equal: entities that differ only in other fields of their signatures
\* (a description one side has and the other lacks) are structurally
\* identical, and combine merges them into one entry.
C16_SignatureIdentityIsNameTypeNilable ==
  Compared =>
    /\ \A l \in ComparedListsOf(A) : \A i \in 1..Len(A[l]) : \A j \in 1..Len(B[l]) :
         IdenticalSignature(A[l][i], B[l][j]) = (Core(A[l][i]) = Core(B[l][j]))
    /\ DifferInMetadataOnly(A, B) => (comparison.identical /\ comparison.merged)

(***************************************************************************)
(* Claims on serialize / load, under SpecRoundTrip                         *)
(***************************************************************************)
Stored(k, i) == heap[apis[1][k][i]]
Loaded(k, i) == heap[loaded[k][i]]

\* C18: API.load(c.serialize()) yields the same entities in the same order, every
\* field equal, the same version string and the same version kind
C18_RoundTripIsExact ==
  pc = "loaded" =>
    \A k \in Kinds :
      /\ Len(loaded[k]) = Len(apis[1][k])
      /\ \A i \in 1..Len(apis[1][k]) :
           /\ Loaded(k, i) = Stored(k, i)
           /\ Raw(Loaded(k, i).version) = Raw(Stored(k, i).version)
           /\ Loaded(k, i).version.tag = Stored(k, i).version.tag

(***************************************************************************)
(* Claims on merge-sources, under SpecScript                               *)
(***************************************************************************)
\* The pass that starts here ends with a builder that holds no collection.
NothingToMerge == pc = "script" /\ pending # <<>> /\ builder = <<>> /\ files = <<>>

\* C19: merge() on a builder to which no collection was added returns null, not
\* an empty collection, and merge-sources then exits with a failure code and
\* writes no output file
C19_EmptyBuilderFails ==
  [][NothingToMerge =>
       /\ MergeOrNull(heap', [i \in 1..Len(builder') |-> apis'[builder'[i]]]).api = Null
       /\ builder' = <<>>
       /\ exitCode' = 1
       /\ pc' = "exited"
       /\ written' = written
       /\ combined' = combined]_vars

\* merge-sources ran into an empty builder and exited with 1, nothing written
C19_Witness ==
  /\ pc = "exited"
  /\ exitCode = 1
  /\ builder = <<>>
  /\ pending # <<>>
  /\ written = <<>>

\* What merge-sources writes for version v when v is the only version of the
\* run: the files are loaded once into a new builder, merged and filtered.
FreshOutput(v) ==
  CHOOSE out \in
    {Serialize(m.heap, FilterForVersion(m.heap, m.api, v)) :
       m \in {MergeOrNull(ld.heap, ld.apis) :
                ld \in {LoadFilesFrom(<<>>, <<>>, files, 1)}}} : TRUE

\* A pass of the loop over validVersions was made and gave an output.
Wrote == Len(written') = Len(written) + 1

\* C28: whenever merge() is called for a requested version the builder holds
\* exactly one collection per input file, and the output written for a version
\* is what a run for that version alone writes
C28_OneCollectionPerFile ==
  [][Wrote =>
       /\ Len(builder') = Len(files)
       /\ written'[Len(written')].content = FreshOutput(target')]_vars

(***************************************************************************)
(* Claims on the adapters, under SpecAdapters                              *)
(***************************************************************************)
\* C22: every entity an adapter hands to the core carries a point version (no
\* extend was applied to any entity here)
C22_AdaptersGivePoints ==
  \A id \in 1..Len(heap) : IsSemVer(heap[id].version)

(***************************************************************************)
(* Claims on the merge of scraped collections, under SpecMerge             *)
(***************************************************************************)
\* The entities the added collections hold, by kind.
InputsOf(k) == UNION {Ids(apis[builder[i]][k]) : i \in 1..Len(builder)}

\* The signatures of a list, each reduced to name, type and nilable.
CoreSet(list) == {Core(list[i]) : i \in 1..Len(list)}

\* Structural identity as the specification states it: same name, namespace
\* (and literalName), and signature lists of one length that are equal as sets
\* of (name, type, nilable).
StructurallyIdentical(a, b) ==
  /\ a.kind = b.kind
  /\ a.name = b.name
  /\ a.ns = b.ns
  /\ (a.kind = "event" => a.literalName = b.literalName)
  /\ \A l \in ComparedListsOf(a) :
       Len(a[l]) = Len(b[l]) /\ CoreSet(a[l]) = CoreSet(b[l])

\* C24: when every input entity carries a point version, then for every input
\* entity e observed at version v, filterForVersion(v) of the merged collection
\* holds an entity of e's kind and name that is structurally identical to e
C24_MergeIsComplete ==
  pc = "filtered" =>
    \A k \in Kinds : \A e \in InputsOf(k) :
      before[e].version.v = target =>
        \E f \in Ids(filtered[k]) :
          /\ heap[f].name = before[e].name
          /\ StructurallyIdentical(heap[f], before[e])

\* C25: when every input entity carries a point version, every entity that
\* filterForVersion(v) of the merged collection returns has the name of, and is
\* structurally identical to, some input entity whose version was exactly v
C25_MergeIsSound ==
  pc = "filtered" =>
    \A k \in Kinds : \A f \in Ids(filtered[k]) :
      \E e \in InputsOf(k) :
        /\ before[e].version.v = target
        /\ before[e].name = heap[f].name
        /\ StructurallyIdentical(heap[f], before[e])

(***************************************************************************)
(* Claims on a repeated merge, under SpecRemerge                           *)
(***************************************************************************)
\* C27: merge() called twice on the same builder, with no add() in between,
\* returns collections with the same entities in the same order, whose versions
\* accept the same point versions (before holds the entities as the first call
\* left them)
C27_MergeIsRepeatable ==
  pc = "remerged" =>
    /\ again = combined
    /\ \A k \in Kinds : \A id \in Ids(combined[k]) :
         AcceptSet(heap[id].version) = AcceptSet(before[id].version)

(***************************************************************************)
(* Claims on WikiScraper.visitPage, under FairScraper                      *)
(***************************************************************************)
Requests == web.requests
Returned == scraper.pc = "returned"
BlockedAttempt == scraper.pc = "cachePage" /\ web.content = "notice"
FreeAttempt == scraper.pc = "cachePage" /\ web.content # "notice"

====
